---- MODULE Spec2Model ----
(***************************************************************************)
(* Ravel (kube2ipvs): the reconciliation engine of the realserver worker,  *)
(* the BGP director worker and the HAProxy process supervisor.             *)
(*                                                                         *)
(* The three components share no state, so each has its own variables and  *)
(* its own next-state relation:                                            *)
(*   SpecRealserver  realserver Start / Stop / setup / periodic goroutines *)
(*   SpecRealserverFair  the same, with the Stop steps scheduled fairly     *)
(*   SpecDirector    bgpserver watches / periodic / configure              *)
(*   SpecHAProxy     HAProxySet, its instances and its respawn loop        *)
(*   SpecHAProxyFair SpecHAProxy with the scheduler's weak fairness        *)
(*   SpecFunctions   the functions whose result depends on arguments only  *)
(***************************************************************************)
EXTENDS Naturals, Integers, Sequences, FiniteSets, TLC

(***************************************************************************)
(* Bounds of the model.                                                    *)
(***************************************************************************)
\* goroutines that call realserver.Start / Stop concurrently
NumCallers == 2
\* Start calls that pass the reconfiguring guard in one run
MaxStarts == 2
\* addresses the kernel may hold on the primary interface: "p1" .. "p<n>"
MaxPrimary == 2

\* successful bgpserver.Start calls in one run (each spawns watches and periodic)
MaxDirStarts == 1
\* readings of the clock: time.Now() returns 1 .. MaxTime, 0 is the zero Time
MaxTime == 3
\* distinct ClusterConfig values the watcher delivers
MaxConfigs == 2
\* distinct NodesList values the watcher delivers
MaxNodeLists == 1
\* listen addresses (IPv6 VIPs) the HAProxy set is configured for
MaxAddrs == 1
\* HAProxy instances created in one run (Configure and respawns)
MaxInst == 2
\* length of a ListenPorts list
MaxPorts == 1
\* distinct service addresses
MaxDests == 1
\* StopAll calls in one run
MaxStopAll == 1
\* Configure and StopOne calls in one run
MaxCalls == 3
\* capacity of errChan in the model (100 in NewHAProxySet, haproxy.go:76)
ErrChanCap == 1
\* addresses GetRemovals is applied to, and the length of its argument
MaxFnAddrs == 3
MaxDesired == 2
\* lengths of the port list and of the service address list given to render
MaxFnPorts == 3
MaxFnDests == 2
MaxFnRefs == 2
MaxSaveLines == 3
MaxParity == 2

Callers == 1..NumCallers
PrimaryAddrs == 1..MaxPrimary

(***************************************************************************)
(* Helpers.                                                                *)
(***************************************************************************)
\* every ordering of a finite set: the order in which IP.Get lists addresses
\* is the kernel's, not the caller's
RECURSIVE Orderings(_)
Orderings(S) ==
    IF S = {} THEN {<<>>}
    ELSE UNION {{<<x>> \o rest : rest \in Orderings(S \ {x})} : x \in S}

VARIABLES
    \* ---- realserver (src/unnamed/part_001) ----
    rsReconfiguring,   \* r.reconfiguring
    rsCall,            \* per caller: position in Start/Stop and its locals
    rsStarts,          \* Start calls that passed the guard so far
    rsCtxCount,        \* watch contexts created so far (ids 1..rsCtxCount)
    rsCtxWatch,        \* r.ctxWatch / r.cxlWatch: id of the current one, 0 = nil
    rsCancelled,       \* watch contexts whose cancel func has been called
    rsPeriodic,        \* per spawned periodic goroutine: its position
    rsWatches,         \* number of watches goroutines spawned (they never return)
    rsPrimary          \* addresses on the primary interface (ipPrimary.Get)

VARIABLES
    \* ---- director (bgpserver, src/unnamed/part_000) ----
    dNow,              \* the clock: what time.Now() returns
    dLastInbound,      \* b.lastInboundUpdate (0 = zero Time)
    dLastReconf,       \* b.lastReconfigure (0 = zero Time)
    dNewConfig,        \* b.newConfig
    dConfig,           \* b.config: 0 = nil, else the value latched
    dNodes,            \* b.nodes: 0 = nil, else the value latched
    dConfigChan,       \* b.configChan, capacity 1
    dNodeChan,         \* b.nodeChan, capacity 1
    dLock,             \* the bgpserver mutex: 0 = free, else the watches goroutine holding it
    dWat,              \* per watches goroutine: position and the time it read
    dPer,              \* per periodic goroutine: position
    dStarts,           \* successful Start calls so far
    dCrashed,          \* the process panicked
    dUnread,           \* history: b.config holds a value no configure has read yet
    dCtxDone,          \* the parent context b.ctx is cancelled
    dWatchDone,        \* b.cxlWatch() was called
    dStop,             \* the position of the Stop call
    dRun               \* per periodic goroutine: the steps the running configure has
                       \* completed, each with the b.config it read

VARIABLES
    \* ---- HAProxy set (src/pkg/haproxy/haproxy.go) ----
    haInst,            \* every HAProxyManager created so far, by id 1..Len
    haSources,         \* h.sources: listenAddr -> instance id, 0 = no entry
    haCancelFuncs,     \* h.cancelFuncs: listenAddr -> id of the instance whose
                       \* context the func cancels, 0 = no entry
    haCtx,             \* h.ctx / h.cxl: generation of the set's context
    haDone,            \* generations of the set's context that are cancelled
    haFiles,           \* <configDir>/<listenAddr>.conf: bytes on disk
    haErrChan,         \* h.errChan
    haLock,            \* the set mutex is held across steps (by run)
    haSup,             \* HAProxySetManager.run: position, the context it
                       \* selects on, the event it is handling
    haStop,            \* position of the StopAll call in progress
    haStops,           \* StopAll calls finished so far
    haCrashed,         \* the process panicked
    haCalls,           \* Configure and StopOne calls made so far
    haLast             \* history: what the last Configure call did

VARIABLES
    \* ---- functions applied to an input, one call at a time ----
    fn                 \* the last call: [op, in, out]

rsVars == <<rsReconfiguring, rsCall, rsStarts, rsCtxCount, rsCtxWatch,
            rsCancelled, rsPeriodic, rsWatches, rsPrimary>>

dirVars == <<dNow, dLastInbound, dLastReconf, dNewConfig, dConfig, dNodes,
             dConfigChan, dNodeChan, dLock, dWat, dPer, dStarts, dCrashed,
             dUnread, dRun, dCtxDone, dWatchDone, dStop>>

dirLife == <<dCtxDone, dWatchDone, dStop>>

haVars == <<haInst, haSources, haCancelFuncs, haCtx, haDone, haFiles,
            haErrChan, haLock, haSup, haStop, haStops, haCrashed, haCalls,
            haLast>>

fnVars == <<fn>>

vars == <<rsVars, dirVars, haVars, fnVars>>

\* what the actions of one component leave alone
rsOthers == <<dirVars, haVars, fnVars>>
dirOthers == <<rsVars, haVars, fnVars>>
haOthers == <<rsVars, dirVars, fnVars>>
fnOthers == <<rsVars, dirVars, haVars>>

(***************************************************************************)
(* REALSERVER                                                              *)
(***************************************************************************)
Goroutines == 1..MaxStarts

IdleCall == [pc |-> "idle", log |-> <<>>, todo |-> <<>>, got |-> <<>>]

\* one call into a kernel abstraction, as setup issues it
Call(name, arg, ok) == [call |-> name, arg |-> arg, ok |-> ok]

RSInit ==
    /\ rsReconfiguring = FALSE
    /\ rsCall = [c \in Callers |-> IdleCall]
    /\ rsStarts = 0
    /\ rsCtxCount = 0
    /\ rsCtxWatch = 0
    /\ rsCancelled = {}
    /\ rsPeriodic = [g \in Goroutines |-> "none"]
    /\ rsWatches = 0
    /\ rsPrimary \in SUBSET PrimaryAddrs

\* setup: `if err != nil { return err }` after every step
AfterStepIgnoringError(ok, next) == next
AfterStep(ok, next) == IF ok THEN next ELSE "fail"

\* the steps of setup that are one call each, and the step that follows
SimpleStep ==
    [loSetARP      |-> [call |-> "ipLoopback.SetARP",      next |-> "loSetRPFilter"],
     loSetRPFilter |-> [call |-> "ipLoopback.SetRPFilter", next |-> "priSetARP"],
     priSetARP     |-> [call |-> "ipPrimary.SetARP",       next |-> "ipvsTeardown"],
     ipvsTeardown  |-> [call |-> "ipvs.Teardown",          next |-> "priGet"]]

\* Start, line 188: the unlocked read of r.reconfiguring
StartBusy(c) ==
    /\ rsCall[c].pc = "idle"
    /\ rsReconfiguring
    /\ UNCHANGED rsVars
    /\ UNCHANGED rsOthers

StartCheck(c) ==
    /\ rsCall[c].pc = "idle"
    /\ ~rsReconfiguring
    /\ rsStarts < MaxStarts
    /\ rsStarts' = rsStarts + 1
    /\ rsCall' = [rsCall EXCEPT ![c].pc = "start_set"]
    /\ UNCHANGED <<rsReconfiguring, rsCtxCount, rsCtxWatch, rsCancelled,
                   rsPeriodic, rsWatches, rsPrimary>>
    /\ UNCHANGED rsOthers

\* Start, line 191: setReconfiguring(true)
StartSet(c) ==
    /\ rsCall[c].pc = "start_set"
    /\ rsReconfiguring' = TRUE
    /\ rsCall' = [rsCall EXCEPT ![c].pc = "cleanup"]
    /\ UNCHANGED <<rsStarts, rsCtxCount, rsCtxWatch, rsCancelled,
                   rsPeriodic, rsWatches, rsPrimary>>
    /\ UNCHANGED rsOthers

\* setup, lines 127-131: cleanup runs Teardown and Flush both, and fails if
\* either failed
SetupCleanup(c) ==
    /\ rsCall[c].pc = "cleanup"
    /\ \E ok1 \in BOOLEAN, ok2 \in BOOLEAN :
        rsCall' = [rsCall EXCEPT
            ![c].log = @ \o <<Call("ipLoopback.Teardown", 0, ok1),
                             Call("iptables.Flush", 0, ok2)>>,
            ![c].pc = AfterStep(ok1 /\ ok2, "loSetARP")]
    /\ UNCHANGED <<rsReconfiguring, rsStarts, rsCtxCount, rsCtxWatch,
                   rsCancelled, rsPeriodic, rsWatches, rsPrimary>>
    /\ UNCHANGED rsOthers

\* setup, lines 136-154
SetupSimple(c) ==
    /\ rsCall[c].pc \in DOMAIN SimpleStep
    /\ \E ok \in BOOLEAN :
        rsCall' = [rsCall EXCEPT
            ![c].log = Append(@, Call(SimpleStep[rsCall[c].pc].call, 0, ok)),
            ![c].pc = AfterStep(ok, SimpleStep[rsCall[c].pc].next)]
    /\ UNCHANGED <<rsReconfiguring, rsStarts, rsCtxCount, rsCtxWatch,
                   rsCancelled, rsPeriodic, rsWatches, rsPrimary>>
    /\ UNCHANGED rsOthers

\* setup, lines 157-160: ipPrimary.Get
SetupGet(c) ==
    /\ rsCall[c].pc = "priGet"
    /\ \/ rsCall' = [rsCall EXCEPT
              ![c].log = Append(@, Call("ipPrimary.Get", 0, FALSE)),
              ![c].pc = AfterStep(FALSE, "priDel")]
       \/ \E addrs \in Orderings(rsPrimary) :
            rsCall' = [rsCall EXCEPT
              ![c].log = Append(@, Call("ipPrimary.Get", 0, TRUE)),
              ![c].got = addrs,
              ![c].todo = addrs,
              ![c].pc = AfterStep(TRUE, IF addrs = <<>> THEN "register" ELSE "priDel")]
    /\ UNCHANGED <<rsReconfiguring, rsStarts, rsCtxCount, rsCtxWatch,
                   rsCancelled, rsPeriodic, rsWatches, rsPrimary>>
    /\ UNCHANGED rsOthers

\* setup, lines 161-166: one iteration of the Del loop
SetupDel(c) ==
    /\ rsCall[c].pc = "priDel"
    /\ LET addr == Head(rsCall[c].todo)
           rest == Tail(rsCall[c].todo)
       IN \E ok \in BOOLEAN :
            /\ rsCall' = [rsCall EXCEPT
                  ![c].log = Append(@, Call("ipPrimary.Del", addr, ok)),
                  ![c].todo = IF ok THEN rest ELSE @,
                  ![c].pc = AfterStep(ok, IF rest = <<>> THEN "register" ELSE "priDel")]
            /\ rsPrimary' = IF ok THEN rsPrimary \ {addr} ELSE rsPrimary
    /\ UNCHANGED <<rsReconfiguring, rsStarts, rsCtxCount, rsCtxWatch,
                   rsCancelled, rsPeriodic, rsWatches>>
    /\ UNCHANGED rsOthers

\* setup, lines 169-176: the new watch context and the two watch registrations
SetupRegister(c) ==
    /\ rsCall[c].pc = "register"
    /\ rsCtxCount' = rsCtxCount + 1
    /\ rsCtxWatch' = rsCtxCount + 1
    /\ rsCall' = [rsCall EXCEPT
          ![c].log = @ \o <<Call("watcher.ConfigMap", 0, TRUE),
                           Call("watcher.Nodes", 0, TRUE)>>,
          ![c].pc = "spawn"]
    /\ UNCHANGED <<rsReconfiguring, rsStarts, rsCancelled, rsPeriodic,
                   rsWatches, rsPrimary>>
    /\ UNCHANGED rsOthers

\* Start, lines 199-201 and the deferred setReconfiguring(false)
StartSpawn(c) ==
    /\ rsCall[c].pc = "spawn"
    /\ LET g == CHOOSE g \in Goroutines :
                  /\ rsPeriodic[g] = "none"
                  /\ \A h \in Goroutines : h < g => rsPeriodic[h] # "none"
       IN rsPeriodic' = [rsPeriodic EXCEPT ![g] = "select"]
    /\ rsWatches' = rsWatches + 1
    /\ rsReconfiguring' = FALSE
    /\ rsCall' = [rsCall EXCEPT ![c] = IdleCall]
    /\ UNCHANGED <<rsStarts, rsCtxCount, rsCtxWatch, rsCancelled, rsPrimary>>
    /\ UNCHANGED rsOthers

\* Start, lines 194-197: setup failed; the deferred setReconfiguring(false)
StartFail(c) ==
    /\ rsCall[c].pc = "fail"
    /\ rsReconfiguring' = FALSE
    /\ rsCall' = [rsCall EXCEPT ![c] = IdleCall]
    /\ UNCHANGED <<rsStarts, rsCtxCount, rsCtxWatch, rsCancelled,
                   rsPeriodic, rsWatches, rsPrimary>>
    /\ UNCHANGED rsOthers

\* Stop, line 77: the unlocked read of r.reconfiguring
StopBusy(c) ==
    /\ rsCall[c].pc = "idle"
    /\ rsReconfiguring
    /\ rsCall' = [rsCall EXCEPT ![c].pc = "stop_refused"]
    /\ UNCHANGED <<rsReconfiguring, rsStarts, rsCtxCount, rsCtxWatch,
                   rsCancelled, rsPeriodic, rsWatches, rsPrimary>>
    /\ UNCHANGED rsOthers

\* Stop, line 78: the error return; nothing was cancelled, cleanup did not run
StopRefused(c) ==
    /\ rsCall[c].pc = "stop_refused"
    /\ rsCall' = [rsCall EXCEPT ![c] = IdleCall]
    /\ UNCHANGED <<rsReconfiguring, rsStarts, rsCtxCount, rsCtxWatch,
                   rsCancelled, rsPeriodic, rsWatches, rsPrimary>>
    /\ UNCHANGED rsOthers

StopCheck(c) ==
    /\ rsCall[c].pc = "idle"
    /\ ~rsReconfiguring
    /\ rsCall' = [rsCall EXCEPT ![c].pc = "stop_set"]
    /\ UNCHANGED <<rsReconfiguring, rsStarts, rsCtxCount, rsCtxWatch,
                   rsCancelled, rsPeriodic, rsWatches, rsPrimary>>
    /\ UNCHANGED rsOthers

\* Stop, lines 80-88: setReconfiguring(true), then cxlWatch() unless nil
StopCancel(c) ==
    /\ rsCall[c].pc = "stop_set"
    /\ rsReconfiguring' = TRUE
    /\ rsCancelled' = IF rsCtxWatch # 0 THEN rsCancelled \cup {rsCtxWatch}
                      ELSE rsCancelled
    /\ rsCall' = [rsCall EXCEPT ![c].pc = "stop_wait"]
    /\ UNCHANGED <<rsStarts, rsCtxCount, rsCtxWatch, rsPeriodic, rsWatches,
                   rsPrimary>>
    /\ UNCHANGED rsOthers

\* Stop, line 91 with periodic, line 334: the rendezvous on the unbuffered
\* doneChan; the periodic goroutine returns
StopWaitDone(c, g) ==
    /\ rsCall[c].pc = "stop_wait"
    /\ rsPeriodic[g] = "send_done"
    /\ rsPeriodic' = [rsPeriodic EXCEPT ![g] = "exited"]
    /\ rsCall' = [rsCall EXCEPT ![c].pc = "stop_cleanup"]
    /\ UNCHANGED <<rsReconfiguring, rsStarts, rsCtxCount, rsCtxWatch,
                   rsCancelled, rsWatches, rsPrimary>>
    /\ UNCHANGED rsOthers

\* Stop, line 92: the 5 s timer fires first
StopWaitForever(c) == FALSE
StopWaitTimeout(c) ==
    /\ rsCall[c].pc = "stop_wait"
    /\ rsCall' = [rsCall EXCEPT ![c].pc = "stop_cleanup"]
    /\ UNCHANGED <<rsReconfiguring, rsStarts, rsCtxCount, rsCtxWatch,
                   rsCancelled, rsPeriodic, rsWatches, rsPrimary>>
    /\ UNCHANGED rsOthers

\* Stop, lines 96-102: cleanup, and the deferred setReconfiguring(false)
StopCleanup(c) ==
    /\ rsCall[c].pc = "stop_cleanup"
    /\ rsReconfiguring' = FALSE
    /\ rsCall' = [rsCall EXCEPT ![c] = IdleCall]
    /\ UNCHANGED <<rsStarts, rsCtxCount, rsCtxWatch, rsCancelled,
                   rsPeriodic, rsWatches, rsPrimary>>
    /\ UNCHANGED rsOthers

\* periodic, lines 271-329: a ticker fires and the goroutine calls configure
PeriodicTick(g) ==
    /\ rsPeriodic[g] = "select"
    /\ rsPeriodic' = [rsPeriodic EXCEPT ![g] = "configure"]
    /\ UNCHANGED <<rsReconfiguring, rsCall, rsStarts, rsCtxCount, rsCtxWatch,
                   rsCancelled, rsWatches, rsPrimary>>
    /\ UNCHANGED rsOthers

\* configure returns (with or without an error) and the loop selects again
PeriodicConfigured(g) ==
    /\ rsPeriodic[g] = "configure"
    /\ rsPeriodic' = [rsPeriodic EXCEPT ![g] = "select"]
    /\ UNCHANGED <<rsReconfiguring, rsCall, rsStarts, rsCtxCount, rsCtxWatch,
                   rsCancelled, rsWatches, rsPrimary>>
    /\ UNCHANGED rsOthers

\* periodic, lines 333-334: the select reads the field r.ctxWatch anew on every
\* iteration, so it sees the context of the latest setup
PeriodicWatchDone(g) ==
    /\ rsPeriodic[g] = "select"
    /\ rsCtxWatch \in rsCancelled
    /\ rsPeriodic' = [rsPeriodic EXCEPT ![g] = "send_done"]
    /\ UNCHANGED <<rsReconfiguring, rsCall, rsStarts, rsCtxCount, rsCtxWatch,
                   rsCancelled, rsWatches, rsPrimary>>
    /\ UNCHANGED rsOthers

RSNext ==
    \/ \E c \in Callers :
        \/ StartBusy(c) \/ StartCheck(c) \/ StartSet(c)
        \/ SetupCleanup(c) \/ SetupSimple(c) \/ SetupGet(c) \/ SetupDel(c)
        \/ SetupRegister(c) \/ StartSpawn(c) \/ StartFail(c)
        \/ StopBusy(c) \/ StopRefused(c) \/ StopCheck(c) \/ StopCancel(c)
        \/ StopWaitTimeout(c) \/ StopCleanup(c)
        \/ \E g \in Goroutines : StopWaitDone(c, g)
    \/ \E g \in Goroutines :
        PeriodicTick(g) \/ PeriodicConfigured(g) \/ PeriodicWatchDone(g)

(***************************************************************************)
(* DIRECTOR (bgpserver)                                                    *)
(***************************************************************************)
DGoroutines == 1..MaxDirStarts
Configs == 1..MaxConfigs
NodeLists == 1..MaxNodeLists
ChanCap == 1

DirInit ==
    /\ dNow = 1
    /\ dLastInbound = 0
    /\ dLastReconf = 0
    /\ dNewConfig = FALSE
    /\ dConfig = 0
    /\ dNodes = 0
    /\ dConfigChan = <<>>
    /\ dNodeChan = <<>>
    /\ dLock = 0
    /\ dWat = [g \in DGoroutines |-> [pc |-> "none", t |-> 0]]
    /\ dPer = [g \in DGoroutines |-> "none"]
    /\ dStarts = 0
    /\ dCrashed = FALSE
    /\ dUnread = FALSE
    /\ dRun = [g \in DGoroutines |-> <<>>]
    /\ dCtxDone = FALSE
    /\ dWatchDone = FALSE
    /\ dStop = "idle"

\* noUpdatesReady: b.lastReconfigure.Sub(b.lastInboundUpdate) > 0
noUpdatesReadyOrEqual == dLastReconf >= dLastInbound
noUpdatesReady == dLastReconf > dLastInbound

\* types.NodesEqual on the latched list and the received one
NodesEqual(a, b) == a = b

\* ipvs.CheckConfigParity is behind the IPVS interface: any of its three
\* outcomes, but "differ" when it is told that a new config arrived
CheckConfigParity(newConfig) ==
    IF newConfig THEN {"differ"} ELSE {"same", "differ", "error"}

\* the clock advances between any two steps
DirTick ==
    /\ ~dCrashed
    /\ dNow < MaxTime
    /\ dNow' = dNow + 1
    /\ UNCHANGED <<dLastInbound, dLastReconf, dNewConfig, dConfig, dNodes,
                   dConfigChan, dNodeChan, dLock, dWat, dPer, dStarts, dCrashed>>
    /\ UNCHANGED <<dUnread, dRun>>
    /\ UNCHANGED dirLife
    /\ UNCHANGED dirOthers

\* Start: setup (cleanup, watch context, watch registrations), then the two
\* goroutines; a failed cleanup returns the error and starts nothing
DirStart ==
    /\ ~dCrashed
    /\ dStarts < MaxDirStarts
    /\ \/ UNCHANGED dirVars
       \/ /\ dStarts' = dStarts + 1
          /\ dWat' = [dWat EXCEPT ![dStarts + 1] = [pc |-> "select", t |-> 0]]
          /\ dPer' = [dPer EXCEPT ![dStarts + 1] = "select"]
          /\ UNCHANGED <<dNow, dLastInbound, dLastReconf, dNewConfig, dConfig,
                         dNodes, dConfigChan, dNodeChan, dLock, dCrashed, dUnread,
                         dRun>>
    /\ UNCHANGED dirLife
    /\ UNCHANGED dirOthers

\* the watcher delivers a config on the registered channel
WatcherSendConfig(v) ==
    /\ ~dCrashed
    /\ dStarts > 0
    /\ Len(dConfigChan) < ChanCap
    /\ dConfigChan' = Append(dConfigChan, v)
    /\ UNCHANGED <<dNow, dLastInbound, dLastReconf, dNewConfig, dConfig, dNodes,
                   dNodeChan, dLock, dWat, dPer, dStarts, dCrashed>>
    /\ UNCHANGED <<dUnread, dRun>>
    /\ UNCHANGED dirLife
    /\ UNCHANGED dirOthers

\* the watcher delivers a node list on the registered channel
WatcherSendNodes(v) ==
    /\ ~dCrashed
    /\ dStarts > 0
    /\ Len(dNodeChan) < ChanCap
    /\ dNodeChan' = Append(dNodeChan, v)
    /\ UNCHANGED <<dNow, dLastInbound, dLastReconf, dNewConfig, dConfig, dNodes,
                   dConfigChan, dLock, dWat, dPer, dStarts, dCrashed>>
    /\ UNCHANGED <<dUnread, dRun>>
    /\ UNCHANGED dirLife
    /\ UNCHANGED dirOthers

\* watches, lines 555-561: an equal node list is dropped
WatchNodesNoop(g) ==
    /\ ~dCrashed
    /\ dWat[g].pc = "select"
    /\ dNodeChan # <<>>
    /\ NodesEqual(dNodes, Head(dNodeChan))
    /\ dNodeChan' = Tail(dNodeChan)
    /\ UNCHANGED <<dNow, dLastInbound, dLastReconf, dNewConfig, dConfig, dNodes,
                   dConfigChan, dLock, dWat, dPer, dStarts, dCrashed>>
    /\ UNCHANGED <<dUnread, dRun>>
    /\ UNCHANGED dirLife
    /\ UNCHANGED dirOthers

\* watches, lines 564-567: Lock, b.nodes = nodes, and the call of time.Now()
\* whose result line 567 is about to store
WatchNodesRecv(g) ==
    /\ ~dCrashed
    /\ dWat[g].pc = "select"
    /\ dNodeChan # <<>>
    /\ ~NodesEqual(dNodes, Head(dNodeChan))
    /\ dLock = 0
    /\ dLock' = g
    /\ dNodes' = Head(dNodeChan)
    /\ dNodeChan' = Tail(dNodeChan)
    /\ dWat' = [dWat EXCEPT ![g] = [pc |-> "stamp", t |-> dNow]]
    /\ UNCHANGED <<dNow, dLastInbound, dLastReconf, dNewConfig, dConfig,
                   dConfigChan, dPer, dStarts, dCrashed>>
    /\ UNCHANGED <<dUnread, dRun>>
    /\ UNCHANGED dirLife
    /\ UNCHANGED dirOthers

\* watches, lines 572-575: Lock, b.config = configs, b.newConfig = true, and
\* the call of time.Now() whose result line 575 is about to store
WatchConfigRecv(g) ==
    /\ ~dCrashed
    /\ dWat[g].pc = "select"
    /\ dConfigChan # <<>>
    /\ dLock = 0
    /\ dLock' = g
    /\ dConfig' = Head(dConfigChan)
    /\ dNewConfig' = TRUE
    /\ dUnread' = TRUE
    /\ UNCHANGED dRun
    /\ dConfigChan' = Tail(dConfigChan)
    /\ dWat' = [dWat EXCEPT ![g] = [pc |-> "stamp", t |-> dNow]]
    /\ UNCHANGED <<dNow, dLastInbound, dLastReconf, dNodes, dNodeChan, dPer,
                   dStarts, dCrashed>>
    /\ UNCHANGED dirLife
    /\ UNCHANGED dirOthers

\* watches, lines 567-568 and 575-576: the store to b.lastInboundUpdate, Unlock.
\* periodic writes b.lastReconfigure without the mutex, so its write may fall
\* between the call of time.Now() and this store
WatchStamp(g) ==
    /\ ~dCrashed
    /\ dWat[g].pc = "stamp"
    /\ dLastInbound' = dWat[g].t
    /\ dLock' = 0
    /\ dWat' = [dWat EXCEPT ![g] = [pc |-> "select", t |-> 0]]
    /\ UNCHANGED <<dNow, dLastReconf, dNewConfig, dConfig, dNodes, dConfigChan,
                   dNodeChan, dPer, dStarts, dCrashed>>
    /\ UNCHANGED <<dUnread, dRun>>
    /\ UNCHANGED dirLife
    /\ UNCHANGED dirOthers

\* periodic, lines 382-388: the 30 s ticker calls configure
PerForcedTick(g) ==
    /\ ~dCrashed
    /\ dPer[g] = "select"
    /\ dPer' = [dPer EXCEPT ![g] = "configure"]
    /\ UNCHANGED <<dNow, dLastInbound, dLastReconf, dNewConfig, dConfig, dNodes,
                   dConfigChan, dNodeChan, dLock, dWat, dStarts, dCrashed>>
    /\ UNCHANGED <<dUnread, dRun>>
    /\ UNCHANGED dirLife
    /\ UNCHANGED dirOthers

\* periodic, lines 390-392: the 2 s ticker calls performReconfigure
PerParityTick(g) ==
    /\ ~dCrashed
    /\ dPer[g] = "select"
    /\ dPer' = [dPer EXCEPT ![g] = "check"]
    /\ UNCHANGED <<dNow, dLastInbound, dLastReconf, dNewConfig, dConfig, dNodes,
                   dConfigChan, dNodeChan, dLock, dWat, dStarts, dCrashed>>
    /\ UNCHANGED <<dUnread, dRun>>
    /\ UNCHANGED dirLife
    /\ UNCHANGED dirOthers

\* performReconfigure, lines 608-611: throttled, it returns
PerParitySkip(g) ==
    /\ ~dCrashed
    /\ dPer[g] = "check"
    /\ noUpdatesReady
    /\ dPer' = [dPer EXCEPT ![g] = "select"]
    /\ UNCHANGED <<dNow, dLastInbound, dLastReconf, dNewConfig, dConfig, dNodes,
                   dConfigChan, dNodeChan, dLock, dWat, dStarts, dCrashed>>
    /\ UNCHANGED <<dUnread, dRun>>
    /\ UNCHANGED dirLife
    /\ UNCHANGED dirOthers

\* performReconfigure, lines 608-613: not throttled
PerParityPass(g) ==
    /\ ~dCrashed
    /\ dPer[g] = "check"
    /\ ~noUpdatesReady
    /\ dPer' = [dPer EXCEPT ![g] = "get"]
    /\ UNCHANGED <<dNow, dLastInbound, dLastReconf, dNewConfig, dConfig, dNodes,
                   dConfigChan, dNodeChan, dLock, dWat, dStarts, dCrashed>>
    /\ UNCHANGED <<dUnread, dRun>>
    /\ UNCHANGED dirLife
    /\ UNCHANGED dirOthers

\* performReconfigure, lines 616-621: ipLoopback.Get
PerGet(g) ==
    /\ ~dCrashed
    /\ dPer[g] = "get"
    /\ \E ok \in BOOLEAN :
         dPer' = [dPer EXCEPT ![g] = IF ok THEN "parity" ELSE "select"]
    /\ UNCHANGED <<dNow, dLastInbound, dLastReconf, dNewConfig, dConfig, dNodes,
                   dConfigChan, dNodeChan, dLock, dWat, dStarts, dCrashed>>
    /\ UNCHANGED <<dUnread, dRun>>
    /\ UNCHANGED dirLife
    /\ UNCHANGED dirOthers

\* performReconfigure, lines 624-638 with configReady, lines 591-600: the flag
\* is read and cleared under the mutex, then handed to CheckConfigParity
PerParity(g) ==
    /\ ~dCrashed
    /\ dPer[g] = "parity"
    /\ dLock = 0
    /\ dNewConfig' = FALSE
    /\ \E res \in CheckConfigParity(dNewConfig) :
         dPer' = [dPer EXCEPT ![g] = IF res = "differ" THEN "configure" ELSE "select"]
    /\ UNCHANGED <<dNow, dLastInbound, dLastReconf, dConfig, dNodes,
                   dConfigChan, dNodeChan, dLock, dWat, dStarts, dCrashed>>
    /\ UNCHANGED <<dUnread, dRun>>
    /\ UNCHANGED dirLife
    /\ UNCHANGED dirOthers

\* one step of configure and the b.config it read
Step(call, config) == [call |-> call, config |-> config]

\* configure, lines 298-301 with setAddresses, lines 446-482: ipLoopback.Get
\* fails, or b.config.Config is read: a nil b.config is a nil dereference;
\* then the Del and Add calls succeed or one of them fails
PerSetAddresses(g) ==
    /\ ~dCrashed
    /\ dPer[g] = "configure"
    /\ \/ /\ dPer' = [dPer EXCEPT ![g] = "select"]
          /\ UNCHANGED <<dCrashed, dUnread, dRun>>
       \/ /\ dConfig = 0
          /\ dCrashed' = TRUE
          /\ UNCHANGED <<dPer, dUnread, dRun>>
       \/ /\ dConfig # 0
          /\ dPer' = [dPer EXCEPT ![g] = "bgp"]
          /\ dRun' = [dRun EXCEPT ![g] = <<Step("setAddresses", dConfig)>>]
          /\ dUnread' = FALSE
          /\ UNCHANGED dCrashed
    /\ UNCHANGED <<dNow, dLastInbound, dLastReconf, dNewConfig, dConfig, dNodes,
                   dConfigChan, dNodeChan, dLock, dWat, dStarts>>
    /\ UNCHANGED dirLife
    /\ UNCHANGED dirOthers

\* the step of configure that follows a step's error check
AfterErrorIgnored(ok, next) == next
AfterError(ok, next) == IF ok THEN next ELSE "select"

\* configure, lines 305-313: the addresses are read from b.config.Config again
\* and handed to bgp.Set; its error returns
PerBgpSet(g) ==
    /\ ~dCrashed
    /\ dPer[g] = "bgp"
    /\ \E ok \in BOOLEAN :
         /\ dPer' = [dPer EXCEPT ![g] = AfterError(ok, "apply")]
         /\ dRun' = [dRun EXCEPT ![g] =
                       IF ok THEN Append(@, Step("bgp.Set", dConfig)) ELSE <<>>]
    /\ UNCHANGED <<dNow, dLastInbound, dLastReconf, dNewConfig, dConfig, dNodes,
                   dConfigChan, dNodeChan, dLock, dWat, dStarts, dCrashed>>
    /\ UNCHANGED dUnread
    /\ UNCHANGED dirLife
    /\ UNCHANGED dirOthers

\* configure, lines 317-320: ipvs.SetIPVS(b.nodes, b.config); its error returns
PerApply(g) ==
    /\ ~dCrashed
    /\ dPer[g] = "apply"
    /\ \E ok \in BOOLEAN :
         /\ dPer' = [dPer EXCEPT ![g] = AfterError(ok, "stamp")]
         /\ dRun' = [dRun EXCEPT ![g] =
                       IF ok THEN Append(@, Step("ipvs.SetIPVS", dConfig)) ELSE <<>>]
    /\ UNCHANGED <<dNow, dLastInbound, dLastReconf, dNewConfig, dConfig, dNodes,
                   dConfigChan, dNodeChan, dLock, dWat, dStarts, dCrashed>>
    /\ UNCHANGED dUnread
    /\ UNCHANGED dirLife
    /\ UNCHANGED dirOthers

\* configure, lines 322-324: b.lastReconfigure = time.Now(), without the mutex
PerStamp(g) ==
    /\ ~dCrashed
    /\ dPer[g] = "stamp"
    /\ dLastReconf' = dNow
    /\ dPer' = [dPer EXCEPT ![g] = "select"]
    /\ dRun' = [dRun EXCEPT ![g] = <<>>]
    /\ UNCHANGED <<dNow, dLastInbound, dNewConfig, dConfig, dNodes,
                   dConfigChan, dNodeChan, dLock, dWat, dStarts, dCrashed>>
    /\ UNCHANGED dUnread
    /\ UNCHANGED dirLife
    /\ UNCHANGED dirOthers

\* everything of the director but its contexts and its Stop call
dirWork == <<dNow, dLastInbound, dLastReconf, dNewConfig, dConfig, dNodes,
             dConfigChan, dNodeChan, dLock, dStarts, dCrashed, dUnread, dRun>>

\* the parent context b.ctx is cancelled by the owner of the worker
DirCancelParent ==
    /\ ~dCrashed
    /\ ~dCtxDone
    /\ dCtxDone' = TRUE
    /\ UNCHANGED <<dirWork, dWat, dPer, dWatchDone, dStop>>
    /\ UNCHANGED dirOthers

\* b.ctxWatch.Done() is ready: ctxWatch derives from b.ctx (line 226)
WatchCtxDone == dWatchDone \/ dCtxDone

\* Stop, lines 178-180: b.cxlWatch(), then the select on doneChan and the timer
DirStop ==
    /\ ~dCrashed
    /\ dStarts > 0
    /\ dStop = "idle"
    /\ dWatchDone' = TRUE
    /\ dStop' = "wait"
    /\ UNCHANGED <<dirWork, dWat, dPer, dCtxDone>>
    /\ UNCHANGED dirOthers

\* Stop, line 182 with periodic, line 396: the rendezvous on the unbuffered
\* doneChan; periodic returns
DirStopDone(g) ==
    /\ ~dCrashed
    /\ dStop = "wait"
    /\ dPer[g] = "send_done"
    /\ dPer' = [dPer EXCEPT ![g] = "exited"]
    /\ dStop' = "cleanup"
    /\ UNCHANGED <<dirWork, dWat, dCtxDone, dWatchDone>>
    /\ UNCHANGED dirOthers

\* Stop, line 183: the 5 s timer fires
DirStopTimeout ==
    /\ ~dCrashed
    /\ dStop = "wait"
    /\ dStop' = "cleanup"
    /\ UNCHANGED <<dirWork, dWat, dPer, dCtxDone, dWatchDone>>
    /\ UNCHANGED dirOthers

\* Stop, lines 186-192: cleanup under a fresh context, return
DirStopCleanup ==
    /\ ~dCrashed
    /\ dStop = "cleanup"
    /\ dStop' = "returned"
    /\ UNCHANGED <<dirWork, dWat, dPer, dCtxDone, dWatchDone>>
    /\ UNCHANGED dirOthers

\* periodic, lines 394-397: case <-b.ctx.Done(), chosen among the ready
\* cases; the send on doneChan follows
PerCtxDone(g) ==
    /\ ~dCrashed
    /\ dPer[g] = "select"
    /\ dCtxDone
    /\ dPer' = [dPer EXCEPT ![g] = "send_done"]
    /\ UNCHANGED <<dirWork, dWat, dCtxDone, dWatchDone, dStop>>
    /\ UNCHANGED dirOthers

\* periodic, lines 398-400: case <-b.ctxWatch.Done(): return
PerWatchDone(g) ==
    /\ ~dCrashed
    /\ dPer[g] = "select"
    /\ WatchCtxDone
    /\ dPer' = [dPer EXCEPT ![g] = "exited"]
    /\ UNCHANGED <<dirWork, dWat, dCtxDone, dWatchDone, dStop>>
    /\ UNCHANGED dirOthers

\* watches, lines 580-585: either Done case returns
WatchExit(g) ==
    /\ ~dCrashed
    /\ dWat[g].pc = "select"
    /\ WatchCtxDone
    /\ dWat' = [dWat EXCEPT ![g] = [pc |-> "exited", t |-> 0]]
    /\ UNCHANGED <<dirWork, dPer, dCtxDone, dWatchDone, dStop>>
    /\ UNCHANGED dirOthers

DirNext ==
    \/ DirTick
    \/ DirStart
    \/ DirCancelParent \/ DirStop \/ DirStopTimeout \/ DirStopCleanup
    \/ \E v \in Configs : WatcherSendConfig(v)
    \/ \E v \in NodeLists : WatcherSendNodes(v)
    \/ \E g \in DGoroutines :
         \/ WatchNodesNoop(g) \/ WatchNodesRecv(g) \/ WatchConfigRecv(g)
         \/ WatchStamp(g)
         \/ PerForcedTick(g) \/ PerParityTick(g) \/ PerParitySkip(g)
         \/ PerParityPass(g) \/ PerGet(g) \/ PerParity(g)
         \/ PerSetAddresses(g) \/ PerBgpSet(g) \/ PerApply(g) \/ PerStamp(g)
         \/ PerCtxDone(g) \/ PerWatchDone(g) \/ WatchExit(g) \/ DirStopDone(g)

(***************************************************************************)
(* HAPROXY SET (src/pkg/haproxy/haproxy.go)                                *)
(***************************************************************************)
HAAddrs == 1..MaxAddrs
DestAddrs == 1..MaxDests

\* a []uint16: Go tells a nil slice from an empty one
NilPorts == [isNil |-> TRUE, elems |-> <<>>]
PortSlice(e) == [isNil |-> FALSE, elems |-> e]
\* the ListenPorts handed to Configure: nil, or the first n of 80, 81, ...
PortLists ==
    {NilPorts} \cup {PortSlice([i \in 1..n |-> 79 + i]) : n \in 0..MaxPorts}
\* the ServiceAddrs handed to Configure
DestLists == UNION {Orderings(S) : S \in SUBSET DestAddrs}

\* os.OpenFile fails (file untouched), f.Write fails (file already
\* truncated by O_TRUNC), or both succeed
WriteOutcomes == {"ok", "openfail", "writefail"}

\* what the file system does to the write of Configure's new bytes and to
\* the write in unroll, which happens only after the first one succeeded
ConfigureWrites ==
    {<<"ok", w>> : w \in WriteOutcomes}
        \cup {<<w, "ok">> : w \in WriteOutcomes}

\* a nil or empty []byte; also the content of a file that is empty or absent
NilBytes == [hdr |-> FALSE, entries |-> <<>>]
\* the zero templateContext
ZeroContext == [Port |-> 0, Source |-> 0, Dest |-> 0]

NoEvent == [Source |-> 0, Dest |-> <<>>, Ports |-> NilPorts]

NoCall ==
    [op |-> "none", addr |-> 0, ports |-> NilPorts, found |-> FALSE,
     created |-> FALSE, cancelled |-> FALSE, err |-> FALSE, panic |-> FALSE,
     writes |-> 0, sighups |-> 0, sighup |-> "none", unroll |-> "none"]

HAInit ==
    /\ haInst = <<>>
    /\ haSources = [a \in HAAddrs |-> 0]
    /\ haCancelFuncs = [a \in HAAddrs |-> 0]
    /\ haCtx = 0
    /\ haDone = {}
    /\ haFiles = [a \in HAAddrs |-> NilBytes]
    /\ haErrChan = <<>>
    /\ haLock = FALSE
    /\ haSup = [pc |-> "select", ctx |-> 0, ev |-> NoEvent]
    /\ haStop = "idle"
    /\ haStops = 0
    /\ haCrashed = FALSE
    /\ haCalls = 0
    /\ haLast = NoCall

\* the context of instance h is not cancelled: neither by its own cancel func
\* nor through the set's context it derives from
Live(h) == ~h.cxl /\ h.gen \notin haDone

\* reflect.DeepEqual on two []uint16
DeepEqual(p, q) ==
    /\ p.isNil = q.isNil
    /\ Len(p.elems) = Len(q.elems)
    /\ \A i \in 1..Len(p.elems) : p.elems[i] = q.elems[i]

\* render indexes h.serviceAddrs[i] for every i except i == len(serviceAddrs):
\* a port list two or more longer than serviceAddrs is an index out of range
RenderPanics(serviceAddrs, ports) == Len(ports.elems) > Len(serviceAddrs) + 1

\* the bytes the template produces for d: its static text (hdr) and one
\* frontend/backend block per element of d
render(listenAddr, serviceAddrs, ports) ==
    [hdr |-> TRUE,
     entries |-> [i \in 1..Len(ports.elems) |->
                    IF i = Len(serviceAddrs) + 1
                    THEN ZeroContext
                    ELSE [Port |-> ports.elems[i], Source |-> listenAddr,
                          Dest |-> serviceAddrs[i]]]]

write(files, listenAddr, b, w) ==
    CASE w = "ok" -> [files EXCEPT ![listenAddr] = b]
      [] w = "openfail" -> files
      [] w = "writefail" -> [files EXCEPT ![listenAddr] = NilBytes]

HAProxyError(h) ==
    [Source |-> h.listenAddr, Dest |-> h.serviceAddrs, Ports |-> h.ports]

\* select { case h.errChan <- msg: default: panic(err) }
sendError(chan, h) ==
    IF Len(chan) < ErrChanCap
    THEN [panic |-> FALSE, chan |-> Append(chan, HAProxyError(h))]
    ELSE [panic |-> TRUE, chan |-> chan]

\* NewHAProxy: render, write, go h.run(). h.rendered is left nil.
NewHAProxy(files, gen, listenAddr, serviceAddrs, ports, w) ==
    IF RenderPanics(serviceAddrs, ports)
    THEN [panic |-> TRUE, err |-> FALSE, files |-> files, inst |-> <<>>]
    ELSE LET b == render(listenAddr, serviceAddrs, ports) IN
         [panic |-> FALSE,
          err |-> w # "ok",
          files |-> write(files, listenAddr, b, w),
          inst |-> IF w # "ok" THEN <<>>
                   ELSE <<[listenAddr |-> listenAddr,
                           serviceAddrs |-> serviceAddrs,
                           ports |-> ports,
                           rendered |-> NilBytes,
                           gen |-> gen, cxl |-> FALSE,
                           proc |-> "unstarted"]>>]

\* h.cmd.Process.Signal(SIGHUP): h.cmd and h.cmd.Process are nil until the
\* instance's goroutine has started the process (nil dereference); a process
\* that has been waited for returns an error
reload(h) ==
    CASE h.proc \in {"unstarted", "failed"} -> "panic"
      [] h.proc = "running" -> "ok"
      [] h.proc = "exited" -> "error"

ReloadResult(h, files, chan, panic, err, writes, sighups, sighup, unrolled) ==
    [h |-> h, files |-> files, chan |-> chan, panic |-> panic, err |-> err,
     writes |-> writes, sighups |-> sighups, sighup |-> sighup,
     unroll |-> unrolled]

\* unroll: write(h.rendered), sendError if that fails
unroll(h, files, chan, w) ==
    LET f == write(files, h.listenAddr, h.rendered, w)
        s == IF w = "ok" THEN [panic |-> FALSE, chan |-> chan]
             ELSE sendError(chan, h)
    IN  ReloadResult(h, f, s.chan, s.panic, TRUE, 2, 0, "failed",
                     IF w = "ok" THEN "ok" ELSE "failed")

\* HAProxyManager.Reload(ports); w1 and w2 are what the file system does to
\* the write of the new bytes and to the write in unroll
Reload(h, files, chan, ports, w1, w2) ==
    IF DeepEqual(ports, h.ports)
    THEN ReloadResult(h, files, chan, FALSE, FALSE, 0, 0, "none", "none")
    ELSE IF RenderPanics(h.serviceAddrs, ports)
    THEN ReloadResult(h, files, chan, TRUE, FALSE, 0, 0, "none", "none")
    ELSE LET b == render(h.listenAddr, h.serviceAddrs, ports)
             f == write(files, h.listenAddr, b, w1)
         IN  IF w1 # "ok"
             THEN ReloadResult(h, f, chan, FALSE, TRUE, 1, 0, "none", "none")
             ELSE CASE reload(h) = "panic" ->
                         ReloadResult(h, f, chan, TRUE, FALSE, 1, 0, "none",
                                      "none")
                    [] reload(h) = "ok" ->
                         ReloadResult([h EXCEPT !.rendered = b,
                                                !.ports = ports],
                                      f, chan, FALSE, FALSE, 1, 1, "ok",
                                      "none")
                    [] reload(h) = "error" -> unroll(h, f, chan, w2)

\* m[listenAddr] = id, for h.sources and h.cancelFuncs
RegisterNothing(m, listenAddr, id) == m
Register(m, listenAddr, id) == [m EXCEPT ![listenAddr] = id]

\* HAProxySetManager.Configure(VIPConfig{Addr6: a, ServiceAddrs, ListenPorts}),
\* the whole call: it holds the set mutex from start to end
Configure(a, serviceAddrs, ports, w1, w2) ==
    /\ ~haCrashed
    /\ ~haLock
    /\ haCalls < MaxCalls
    /\ haCalls' = haCalls + 1
    /\ LET call == [NoCall EXCEPT !.op = "Configure", !.addr = a,
                                  !.ports = ports]
       IN
       IF haSources[a] = 0
       THEN \* create the instance if it doesn't exist
            /\ (w1 = "ok") => Len(haInst) < MaxInst
            /\ LET n == NewHAProxy(haFiles, haCtx, a, serviceAddrs, ports, w1)
               IN
               IF n.panic
               THEN /\ haCrashed' = TRUE
                    /\ haLast' = [call EXCEPT !.panic = TRUE]
                    /\ UNCHANGED <<haInst, haSources, haCancelFuncs, haFiles,
                                   haErrChan>>
               ELSE IF n.err
               THEN \* cxl(); return err
                    /\ haFiles' = n.files
                    /\ haLast' = [call EXCEPT !.err = TRUE,
                                              !.cancelled = TRUE,
                                              !.writes = 1]
                    /\ UNCHANGED <<haInst, haSources, haCancelFuncs,
                                   haErrChan, haCrashed>>
               ELSE LET id == Len(haInst) + 1
                        r == Reload(n.inst[1], n.files, haErrChan, ports,
                                    w1, w2)
                    IN  /\ haInst' = Append(haInst, r.h)
                        /\ haSources' = Register(haSources, a, id)
                        /\ haCancelFuncs' = Register(haCancelFuncs, a, id)
                        /\ haFiles' = r.files
                        /\ haErrChan' = r.chan
                        /\ haCrashed' = r.panic
                        /\ haLast' = [call EXCEPT !.created = TRUE,
                                                  !.err = r.err,
                                                  !.panic = r.panic,
                                                  !.writes = 1 + r.writes,
                                                  !.sighups = r.sighups,
                                                  !.sighup = r.sighup,
                                                  !.unroll = r.unroll]
       ELSE \* then configure it
            LET id == haSources[a]
                r == Reload(haInst[id], haFiles, haErrChan, ports, w1, w2)
            IN  /\ haInst' = [haInst EXCEPT ![id] = r.h]
                /\ haFiles' = r.files
                /\ haErrChan' = r.chan
                /\ haCrashed' = r.panic
                /\ haLast' = [call EXCEPT !.found = TRUE,
                                          !.err = r.err,
                                          !.panic = r.panic,
                                          !.writes = r.writes,
                                          !.sighups = r.sighups,
                                          !.sighup = r.sighup,
                                          !.unroll = r.unroll]
                /\ UNCHANGED <<haSources, haCancelFuncs>>
    /\ UNCHANGED <<haCtx, haDone, haLock, haSup, haStop, haStops>>
    /\ UNCHANGED haOthers

\* HAProxySetManager.StopOne(listenAddr)
StopOne(a) ==
    /\ ~haCrashed
    /\ ~haLock
    /\ haCalls < MaxCalls
    /\ haCalls' = haCalls + 1
    /\ IF haCancelFuncs[a] = 0
       THEN UNCHANGED haInst
       ELSE haInst' = [haInst EXCEPT ![haCancelFuncs[a]].cxl = TRUE]
    /\ haLast' = NoCall
    /\ UNCHANGED <<haSources, haCancelFuncs, haCtx, haDone, haFiles,
                   haErrChan, haLock, haSup, haStop, haStops, haCrashed>>
    /\ UNCHANGED haOthers

\* HAProxySetManager.StopAll, statement by statement: it takes no lock
StopAllCancel ==
    /\ ~haCrashed
    /\ haStop = "idle"
    /\ haStops < MaxStopAll
    /\ haDone' = haDone \cup {haCtx}
    /\ haStop' = "sources"
    /\ haLast' = NoCall
    /\ UNCHANGED <<haInst, haSources, haCancelFuncs, haCtx, haFiles,
                   haErrChan, haLock, haSup, haStops, haCrashed>>
    /\ UNCHANGED haCalls
    /\ UNCHANGED haOthers

StopAllSources ==
    /\ ~haCrashed
    /\ haStop = "sources"
    /\ haSources' = [a \in HAAddrs |-> 0]
    /\ haStop' = "cancelFuncs"
    /\ haLast' = NoCall
    /\ UNCHANGED <<haInst, haCancelFuncs, haCtx, haDone, haFiles,
                   haErrChan, haLock, haSup, haStops, haCrashed>>
    /\ UNCHANGED haCalls
    /\ UNCHANGED haOthers

StopAllCancelFuncs ==
    /\ ~haCrashed
    /\ haStop = "cancelFuncs"
    /\ haCancelFuncs' = [a \in HAAddrs |-> 0]
    /\ haStop' = "ctx"
    /\ haLast' = NoCall
    /\ UNCHANGED <<haInst, haSources, haCtx, haDone, haFiles,
                   haErrChan, haLock, haSup, haStops, haCrashed>>
    /\ UNCHANGED haCalls
    /\ UNCHANGED haOthers

StopAllCtx ==
    /\ ~haCrashed
    /\ haStop = "ctx"
    /\ haCtx' = haCtx + 1
    /\ haStop' = "idle"
    /\ haStops' = haStops + 1
    /\ haLast' = NoCall
    /\ UNCHANGED <<haInst, haSources, haCancelFuncs, haDone, haFiles,
                   haErrChan, haLock, haSup, haCrashed>>
    /\ UNCHANGED haCalls
    /\ UNCHANGED haOthers

\* HAProxyManager.run of instance i reaches cmd.Run(): exec.CommandContext
\* starts the process, or fails (always when the context is already done),
\* and then cmdErr delivers the error, which run reports with sendError
InstStart(i, ok) ==
    /\ ~haCrashed
    /\ i \in 1..Len(haInst)
    /\ haInst[i].proc = "unstarted"
    /\ ok => Live(haInst[i])
    /\ IF ok
       THEN /\ haInst' = [haInst EXCEPT ![i].proc = "running"]
            /\ UNCHANGED <<haErrChan, haCrashed>>
       ELSE LET s == sendError(haErrChan, haInst[i]) IN
            /\ haInst' = [haInst EXCEPT ![i].proc = "failed"]
            /\ haErrChan' = s.chan
            /\ haCrashed' = s.panic
    /\ haLast' = NoCall
    /\ UNCHANGED <<haSources, haCancelFuncs, haCtx, haDone, haFiles,
                   haLock, haSup, haStop, haStops>>
    /\ UNCHANGED haCalls
    /\ UNCHANGED haOthers

\* the process of instance i exits (by itself, or killed because its
\* context is done) and cmd.Run() returns err; run returns silently on nil
\* and calls sendError otherwise. The case <-h.ctx.Done() has no body.
InstExit(i, err) ==
    /\ ~haCrashed
    /\ i \in 1..Len(haInst)
    /\ haInst[i].proc = "running"
    /\ haInst' = [haInst EXCEPT ![i].proc = "exited"]
    /\ IF err
       THEN LET s == sendError(haErrChan, haInst[i]) IN
            /\ haErrChan' = s.chan
            /\ haCrashed' = s.panic
       ELSE UNCHANGED <<haErrChan, haCrashed>>
    /\ haLast' = NoCall
    /\ UNCHANGED <<haSources, haCancelFuncs, haCtx, haDone, haFiles,
                   haLock, haSup, haStop, haStops>>
    /\ UNCHANGED haCalls
    /\ UNCHANGED haOthers

\* HAProxySetManager.run, case <-h.ctx.Done(): return
RunCtxDone ==
    /\ ~haCrashed
    /\ haSup.pc = "select"
    /\ haSup.ctx \in haDone
    /\ haSup' = [haSup EXCEPT !.pc = "exited"]
    /\ haLast' = NoCall
    /\ UNCHANGED <<haInst, haSources, haCancelFuncs, haCtx, haDone, haFiles,
                   haErrChan, haLock, haStop, haStops, haCrashed>>
    /\ UNCHANGED haCalls
    /\ UNCHANGED haOthers

\* HAProxySetManager.run, case instanceError := <-h.errChan, up to the
\* result of NewHAProxy: on success the handler runs to h.Unlock(); on
\* failure it stops, holding the mutex, at the send h.errChan <- instanceError
RunRecv(w) ==
    /\ ~haCrashed
    /\ haSup.pc = "select"
    /\ ~haLock
    /\ haErrChan # <<>>
    /\ (w = "ok") => Len(haInst) < MaxInst
    /\ LET ev == Head(haErrChan)
           n == NewHAProxy(haFiles, haCtx, ev.Source, ev.Dest, ev.Ports, w)
           id == Len(haInst) + 1
       IN
       /\ haErrChan' = Tail(haErrChan)
       /\ IF n.panic
          THEN /\ haCrashed' = TRUE
               /\ haSources' = Register(haSources, ev.Source, 0)
               /\ haCancelFuncs' = Register(haCancelFuncs, ev.Source, 0)
               /\ UNCHANGED <<haInst, haFiles, haLock, haSup>>
          ELSE IF n.err
          THEN /\ haSources' = Register(haSources, ev.Source, 0)
               /\ haCancelFuncs' = Register(haCancelFuncs, ev.Source, 0)
               /\ haFiles' = n.files
               /\ haLock' = TRUE
               /\ haSup' = [haSup EXCEPT !.pc = "requeue", !.ev = ev]
               /\ UNCHANGED <<haInst, haCrashed>>
          ELSE /\ haInst' = Append(haInst, n.inst[1])
               /\ haSources' = Register(haSources, ev.Source, id)
               /\ haCancelFuncs' = Register(haCancelFuncs, ev.Source, id)
               /\ haFiles' = n.files
               /\ haSup' = [haSup EXCEPT !.pc = "sleep"]
               /\ UNCHANGED <<haLock, haCrashed>>
    /\ haLast' = NoCall
    /\ UNCHANGED <<haCtx, haDone, haStop, haStops>>
    /\ UNCHANGED haCalls
    /\ UNCHANGED haOthers

\* h.errChan <- instanceError: a blocking send, possible only while errChan
\* has room; then h.Unlock()
RunRequeue ==
    /\ ~haCrashed
    /\ haSup.pc = "requeue"
    /\ Len(haErrChan) < ErrChanCap
    /\ haErrChan' = Append(haErrChan, haSup.ev)
    /\ haLock' = FALSE
    /\ haSup' = [haSup EXCEPT !.pc = "sleep", !.ev = NoEvent]
    /\ haLast' = NoCall
    /\ UNCHANGED <<haInst, haSources, haCancelFuncs, haCtx, haDone, haFiles,
                   haStop, haStops, haCrashed>>
    /\ UNCHANGED haCalls
    /\ UNCHANGED haOthers

\* time.Sleep(1000 ms) ends and the loop evaluates h.ctx.Done() again
RunSleepDone ==
    /\ ~haCrashed
    /\ haSup.pc = "sleep"
    /\ haSup' = [haSup EXCEPT !.pc = "select", !.ctx = haCtx]
    /\ haLast' = NoCall
    /\ UNCHANGED <<haInst, haSources, haCancelFuncs, haCtx, haDone, haFiles,
                   haErrChan, haLock, haStop, haStops, haCrashed>>
    /\ UNCHANGED haCalls
    /\ UNCHANGED haOthers

HANext ==
    \/ \E a \in HAAddrs, d \in DestLists, p \in PortLists,
          w \in ConfigureWrites :
         Configure(a, d, p, w[1], w[2])
    \/ \E a \in HAAddrs : StopOne(a)
    \/ StopAllCancel
    \/ StopAllSources
    \/ StopAllCancelFuncs
    \/ StopAllCtx
    \/ \E i \in 1..MaxInst, ok \in BOOLEAN : InstStart(i, ok)
    \/ \E i \in 1..MaxInst, err \in BOOLEAN : InstExit(i, err)
    \/ RunCtxDone
    \/ \E w \in WriteOutcomes : RunRecv(w)
    \/ RunRequeue
    \/ RunSleepDone

(***************************************************************************)
(* FUNCTIONS: code whose result depends on its arguments only, applied to  *)
(* every argument within the bounds                                        *)
(***************************************************************************)
NoFn == [op |-> "none", in |-> <<>>, out |-> <<>>]

FnInit == fn = NoFn

\* the caller takes the result; the next call can be made
FnReturn ==
    /\ fn.op # "none"
    /\ fn' = NoFn
    /\ UNCHANGED fnOthers

\* all sequences over S of length at most n
RECURSIVE SeqsUpTo(_, _)
SeqsUpTo(S, n) ==
    IF n = 0 THEN {<<>>}
    ELSE LET shorter == SeqsUpTo(S, n - 1)
         IN  shorter \cup {Append(q, x) : q \in shorter, x \in S}

FnAddrs == 1..MaxFnAddrs

\* HAProxySetManager.GetRemovals: configured is the keys of h.sources in the
\* order the map iteration yields them; an address is kept when the inner
\* loop finds no equal element of v6addrs
GetRemovalsKeepAll(configured, v6addrs) == configured
GetRemovals(configured, v6addrs) ==
    SelectSeq(configured,
              LAMBDA i : ~\E j \in 1..Len(v6addrs) : v6addrs[j] = i)

\* one call of GetRemovals on a set whose instance map is sources; it takes
\* and releases the mutex and writes nothing
CallGetRemovals(sources, order, v6addrs) ==
    /\ fn.op = "none"
    /\ fn' = [op |-> "GetRemovals",
              in |-> [sources |-> sources, v6addrs |-> v6addrs],
              out |-> GetRemovals(order, v6addrs)]
    /\ UNCHANGED fnOthers

\* the arguments of render: ports, and the instance's listenAddr and
\* serviceAddrs
FnPortLists ==
    {NilPorts} \cup {PortSlice([i \in 1..n |-> 79 + i]) : n \in 0..MaxFnPorts}
FnDestLists == SeqsUpTo(DestAddrs, MaxFnDests)

\* one call of HAProxyManager.render
CallRender(listenAddr, serviceAddrs, ports) ==
    /\ fn.op = "none"
    /\ fn' = [op |-> "render",
              in |-> [listenAddr |-> listenAddr,
                      serviceAddrs |-> serviceAddrs, ports |-> ports],
              out |-> IF RenderPanics(serviceAddrs, ports)
                      THEN [panic |-> TRUE, b |-> NilBytes]
                      ELSE [panic |-> FALSE,
                            b |-> render(listenAddr, serviceAddrs, ports)]]
    /\ UNCHANGED fnOthers

\* the inputs of one pass of configureHAProxy's inner loop: the listen ports
\* that may be keys of a PortMap, the service identities they refer to, and
\* the cluster addresses of b.services
FnListenPorts == {79 + i : i \in 1..MaxFnPorts}
FnRefs == 1..MaxFnRefs
FnPortMaps == [FnListenPorts -> 0..MaxFnRefs]
FnClusterAddrs == 1..MaxFnDests
FnServices == [FnRefs -> {0} \cup FnClusterAddrs]

\* uint16(p) of the port parsed by strconv.Atoi
Uint16(p) == p % 65536

\* getClusterAddr: the address of the identity in b.services, 0 for the
\* "not found" error (an identity of 0 is a port that is no key of the map)
getClusterAddr(services, identity) ==
    IF identity \in DOMAIN services THEN services[identity] ELSE 0

\* the inner loop of configureHAProxy over one PortMap, in the order the map
\* iteration yields its keys: a failed lookup continues with the next port
\* before either append, a successful one appends to both slices
RECURSIVE VIPConfigAppendPortFirst(_, _, _)
VIPConfigAppendPortFirst(order, portMap, services) ==
    IF order = <<>> THEN [ServiceAddrs |-> <<>>, ListenPorts |-> <<>>]
    ELSE LET n    == Len(order)
             rest == VIPConfigAppendPortFirst(SubSeq(order, 1, n - 1), portMap, services)
             port == order[n]
             addr4 == getClusterAddr(services, portMap[port])
         IN  IF addr4 = 0
             THEN [ServiceAddrs |-> rest.ServiceAddrs,
                   ListenPorts |-> Append(rest.ListenPorts, Uint16(port))]
             ELSE [ServiceAddrs |-> Append(rest.ServiceAddrs, addr4),
                   ListenPorts |-> Append(rest.ListenPorts, Uint16(port))]
RECURSIVE VIPConfig(_, _, _)
VIPConfig(order, portMap, services) ==
    IF order = <<>> THEN [ServiceAddrs |-> <<>>, ListenPorts |-> <<>>]
    ELSE LET n    == Len(order)
             rest == VIPConfig(SubSeq(order, 1, n - 1), portMap, services)
             port == order[n]
             addr4 == getClusterAddr(services, portMap[port])
         IN  IF addr4 = 0
             THEN rest
             ELSE [ServiceAddrs |-> Append(rest.ServiceAddrs, addr4),
                   ListenPorts |-> Append(rest.ListenPorts, Uint16(port))]

\* configureHAProxy building the VIPConfig of one address of b.config.Config;
\* failed records whether a lookup error made the function return an error
CallConfigureHAProxy(portMap, order, services) ==
    /\ fn.op = "none"
    /\ fn' = [op |-> "configureHAProxy",
              in |-> [portMap |-> portMap, services |-> services],
              out |-> [cfg |-> VIPConfig(order, portMap, services),
                       failed |-> FALSE]]
    /\ UNCHANGED fnOthers

\* ipLoopback.Compare(configured, desired): the addresses to remove and the
\* addresses to add (as sets; the order of each list is the caller's input)
Compare(configured, desired) ==
    [removals |-> configured \ desired, additions |-> desired \ configured]

\* one ipLoopback.Del or Add call
LoopbackCall(op, addr) == [op |-> op, addr |-> addr]

\* setAddresses (director and realserver): Get, the desired addresses from
\* the keys of config.Config, Compare, then Del for every removal and then
\* Add for every addition, returning at the first error. getOk is the
\* outcome of Get, failAt the index of the Del/Add call that fails (0: none);
\* calls are the calls issued, lo the addresses on the device afterwards
setAddressesAddFirst(configured, removals, additions, getOk, failAt) ==
    LET plan == [i \in 1..Len(additions) |-> LoopbackCall("Add", additions[i])]
                \o [i \in 1..Len(removals) |-> LoopbackCall("Del", removals[i])]
        done == IF failAt = 0 THEN plan ELSE SubSeq(plan, 1, failAt - 1)
    IN  IF ~getOk THEN [err |-> TRUE, calls |-> <<>>, lo |-> configured]
        ELSE [err |-> failAt # 0,
              calls |-> IF failAt = 0 THEN plan ELSE SubSeq(plan, 1, failAt),
              lo |-> (configured
                        \ {done[i].addr : i \in {j \in 1..Len(done) : done[j].op = "Del"}})
                     \cup {done[i].addr : i \in {j \in 1..Len(done) : done[j].op = "Add"}}]
setAddresses(configured, removals, additions, getOk, failAt) ==
    LET plan == [i \in 1..Len(removals) |-> LoopbackCall("Del", removals[i])]
                \o [i \in 1..Len(additions) |-> LoopbackCall("Add", additions[i])]
        done == IF failAt = 0 THEN plan ELSE SubSeq(plan, 1, failAt - 1)
    IN  IF ~getOk THEN [err |-> TRUE, calls |-> <<>>, lo |-> configured]
        ELSE [err |-> failAt # 0,
              calls |-> IF failAt = 0 THEN plan ELSE SubSeq(plan, 1, failAt),
              lo |-> (configured
                        \ {done[i].addr : i \in {j \in 1..Len(done) : done[j].op = "Del"}})
                     \cup {done[i].addr : i \in {j \in 1..Len(done) : done[j].op = "Add"}}]

\* one call of setAddresses with the device holding configured and
\* config.Config having the keys desired
CallSetAddresses(configured, desired, removals, additions, getOk, failAt) ==
    /\ fn.op = "none"
    /\ fn' = [op |-> "setAddresses",
              in |-> [configured |-> configured, desired |-> desired],
              out |-> setAddresses(configured, removals, additions, getOk, failAt)]
    /\ UNCHANGED fnOthers

\* one line of iptables-save output: what it starts with ("#", "*", ":",
\* "-A" or "COMMIT"), the table or chain it names, and the rest of its text
\* (here the number of the line)
SaveLine(lead, name) == [lead |-> lead, name |-> name, text |-> 0]
Numbered(raw) == [i \in 1..Len(raw) |-> [raw[i] EXCEPT !.text = i]]

\* the fixture of TestGetSaveLines
testDataOneRuleLess ==
    Numbered(<<SaveLine("#", ""), SaveLine("*", "nat"),
               SaveLine(":", "PREROUTING"), SaveLine(":", "KUBE-IPVS"),
               SaveLine(":", "KUBE-MARK-MASQ"),
               SaveLine(":", "KUBE-SEP-2CYGKEFSDFORQH3J"),
               SaveLine(":", "KUBE-SERVICES"),
               SaveLine(":", "KUBE-SVC-ZSTEUXYJ236S7BT6"),
               SaveLine("-A", "PREROUTING"),
               SaveLine("-A", "KUBE-SEP-2CYGKEFSDFORQH3J"),
               SaveLine("-A", "KUBE-SEP-2CYGKEFSDFORQH3J"),
               SaveLine("-A", "KUBE-SERVICES"),
               SaveLine("COMMIT", ""), SaveLine("#", "")>>)
testData ==
    Numbered(<<SaveLine("#", ""), SaveLine("*", "nat"),
               SaveLine(":", "PREROUTING"), SaveLine(":", "KUBE-IPVS"),
               SaveLine(":", "KUBE-MARK-MASQ"),
               SaveLine(":", "KUBE-SEP-2CYGKEFSDFORQH3J"),
               SaveLine(":", "KUBE-SERVICES"),
               SaveLine(":", "KUBE-SVC-ZSTEUXYJ236S7BT6"),
               SaveLine("-A", "PREROUTING"), SaveLine("-A", "PREROUTING"),
               SaveLine("-A", "KUBE-SEP-2CYGKEFSDFORQH3J"),
               SaveLine("-A", "KUBE-SEP-2CYGKEFSDFORQH3J"),
               SaveLine("-A", "KUBE-SERVICES"),
               SaveLine("COMMIT", ""), SaveLine("#", "")>>)

\* the parser reading one line: cur is the table of the section being read
\* ("" outside a section), chains the mapping built so far
ParseLine(table, st, l) ==
    CASE l.lead = "*" -> [st EXCEPT !.cur = l.name]
      [] l.lead = "COMMIT" -> [st EXCEPT !.cur = ""]
      [] l.lead = ":" /\ st.cur = table /\ l.name \notin DOMAIN st.chains ->
            [st EXCEPT !.chains = st.chains @@ (l.name :> <<>>)]
      [] l.lead = "-A" /\ st.cur = table /\ l.name \in DOMAIN st.chains ->
            [st EXCEPT !.chains[l.name] = Append(st.chains[l.name], l)]
      [] OTHER -> st

\* GetSaveLines(table, bytes): the chains of the table, each with its rules
RECURSIVE ParseLines(_, _, _)
ParseLines(table, st, lines) ==
    IF lines = <<>> THEN st
    ELSE ParseLines(table, ParseLine(table, st, Head(lines)), Tail(lines))
GetSaveLines(table, data) ==
    ParseLines(table, [cur |-> "", chains |-> <<>>], data).chains

\* iptables-save outputs: an optional filter section, then the nat section
\* with the declarations of some chains and up to MaxSaveLines rules of
\* declared chains and comments
FnChains == {"PREROUTING", "KUBE-SERVICES"}
FilterSection ==
    <<SaveLine("*", "filter"), SaveLine(":", "INPUT"), SaveLine(":", "PREROUTING"),
      SaveLine("-A", "PREROUTING"), SaveLine("COMMIT", "")>>
SaveOutputs ==
    {testData} \cup
    UNION {{Numbered(pre \o <<SaveLine("#", ""), SaveLine("*", "nat")>> \o decls
                     \o body \o <<SaveLine("COMMIT", ""), SaveLine("#", "")>>) :
               pre \in {<<>>, FilterSection},
               decls \in Orderings({SaveLine(":", ch) : ch \in D}),
               body \in SeqsUpTo({SaveLine("-A", ch) : ch \in D} \cup {SaveLine("#", "")},
                                 MaxSaveLines)} :
           D \in SUBSET FnChains}

\* one call of GetSaveLines
CallGetSaveLines(table, data) ==
    /\ fn.op = "none"
    /\ fn' = [op |-> "GetSaveLines", in |-> [table |-> table, data |-> data],
              out |-> GetSaveLines(table, data)]
    /\ UNCHANGED fnOthers

\* a []string: Go tells a nil slice from an empty one
NilSlice == [isNil |-> TRUE, elems |-> <<>>]
Slice(e) == [isNil |-> FALSE, elems |-> e]
\* two addresses, or two rules of the base chain
ParityValues == {1, 2}
\* the []string values over them of length at most MaxParity
Slices == {NilSlice} \cup {Slice(e) : e \in SeqsUpTo(ParityValues, MaxParity)}

\* sort.Sort(sort.StringSlice(x)): in place, a nil slice stays nil
SortSlice(x) == [x EXCEPT !.elems = SortSeq(@, LAMBDA a, b : a < b)]

\* realserver.checkConfigParity. configNil: r.config == nil; addresses: what
\* ipLoopback.Get returned; vips: the keys of r.config.Config as the map
\* iteration appended them to []string{}; found, rules: the base chain of
\* iptables.Save; generated: the Rules of the base chain of GenerateRules;
\* failing: the call that returns an error, if any
checkConfigParity(configNil, addresses, vips, found, rules, generated, failing) ==
    IF configNil THEN [same |-> TRUE, err |-> FALSE]
    ELSE IF failing # "none" THEN [same |-> FALSE, err |-> TRUE]
    ELSE LET existingRules  == IF found THEN SortSlice(rules) ELSE Slice(<<>>)
             generatedRules == SortSlice(generated)
         IN  [same |-> /\ SortSlice(Slice(vips)) = addresses
                       /\ existingRules = generatedRules,
              err |-> FALSE]

\* one call of checkConfigParity
CallCheckConfigParity(configNil, addresses, vips, found, rules, generated, failing) ==
    /\ fn.op = "none"
    /\ fn' = [op |-> "checkConfigParity",
              in |-> [configNil |-> configNil, addresses |-> addresses,
                      vips |-> vips, found |-> found, rules |-> rules,
                      generated |-> generated, failing |-> failing],
              out |-> checkConfigParity(configNil, addresses, vips, found,
                                        rules, generated, failing)]
    /\ UNCHANGED fnOthers

\* a rule set of iptables: what Save, GenerateRulesForNodes and Merge return
RuleSets == {1, 2, 3}
\* no rule set: the argument or the result of a call that has none
NoRules == 0

\* one call configure made on a collaborator: its arguments and its result
Made(call, args, ret) == [call |-> call, args |-> args, ret |-> ret]

\* the body of configure after the parity check, cut after the call number
\* failAt (0: no call fails). existing, generated, merged: the results of
\* Save, GenerateRulesForNodes and Merge
configureBody(failAt, existing, generated, merged) ==
    LET steps == << Made("setAddresses", <<>>, NoRules),
                    Made("Save", <<>>, existing),
                    Made("GenerateRulesForNodes", <<"node", "config">>, generated),
                    Made("Merge", <<generated, existing>>, merged),
                    Made("Restore", <<merged>>, NoRules) >>
    IN  SubSeq(steps, 1, IF failAt = 0 THEN Len(steps) ELSE failAt)

\* configure with the parity check running also when forced
configureAlwaysChecks(force, parity, failAt, existing, generated, merged) ==
    LET checked == <<Made("checkConfigParity", <<>>, NoRules)>>
    IN  IF parity = "err" THEN [calls |-> checked, err |-> TRUE]
        ELSE IF parity = "same" THEN [calls |-> checked, err |-> FALSE]
        ELSE [calls |-> checked \o configureBody(failAt, existing, generated, merged),
              err |-> failAt # 0]

\* realserver.configure(force). parity: what checkConfigParity returns
\* ("same", "differ" or "err"); the calls it made and whether it returned an
\* error
configure(force, parity, failAt, existing, generated, merged) ==
    LET checked == IF force THEN <<>>
                   ELSE <<Made("checkConfigParity", <<>>, NoRules)>>
    IN  IF ~force /\ parity = "err" THEN [calls |-> checked, err |-> TRUE]
        ELSE IF ~force /\ parity = "same" THEN [calls |-> checked, err |-> FALSE]
        ELSE [calls |-> checked \o configureBody(failAt, existing, generated, merged),
              err |-> failAt # 0]

\* one call of configure
CallConfigure(force, parity, failAt, existing, generated, merged) ==
    /\ fn.op = "none"
    /\ fn' = [op |-> "configure",
              in |-> [force |-> force, parity |-> parity, failAt |-> failAt,
                      existing |-> existing, generated |-> generated,
                      merged |-> merged],
              out |-> configure(force, parity, failAt, existing, generated, merged)]
    /\ UNCHANGED fnOthers

\* iptables.Merge on the base chain, which is a managed chain: its rules are
\* replaced by the generated ones
MergeBaseChain(generated, existing) == generated

\* periodic's 60 s tick after a configure that succeeded, nothing else having
\* changed: configure(false) runs checkConfigParity. The loopback device
\* holds exactly the VIPs, which ipLoopback.Get returns in the order
\* `addresses`; the base chain holds what Restore was given, the Merge of
\* GenerateRulesForNodes(r.node, r.config, false) (forNode) into `existing`;
\* the parity check generates with GenerateRules(r.config) (forConfig)
tickAfterConfigure(vips, addresses, existing, forNode, forConfig) ==
    checkConfigParity(FALSE, Slice(addresses), vips, TRUE,
                      MergeBaseChain(forNode, existing), forConfig, "none")

\* one such tick
CallTickAfterConfigure(vips, addresses, existing, forNode, forConfig) ==
    /\ fn.op = "none"
    /\ fn' = [op |-> "tickAfterConfigure",
              in |-> [vips |-> vips, addresses |-> addresses,
                      existing |-> existing, forNode |-> forNode,
                      forConfig |-> forConfig],
              out |-> tickAfterConfigure(vips, addresses, existing, forNode,
                                         forConfig)]
    /\ UNCHANGED fnOthers

\* the inputs of the next call are chosen once the last call has returned
WhenReturned(S) == IF fn.op = "none" THEN S ELSE {}

FnNext ==
    \/ FnReturn
    \/ \E vipSet \in WhenReturned(SUBSET ParityValues), existing \in Slices,
          forNode \in Slices, forConfig \in Slices :
         \E vips \in Orderings(vipSet), addresses \in Orderings(vipSet) :
            CallTickAfterConfigure(vips, addresses, existing, forNode,
                                   forConfig)
    \/ \E force \in WhenReturned(BOOLEAN), parity \in {"same", "differ", "err"},
          failAt \in 0..5, existing \in RuleSets, generated \in RuleSets,
          merged \in RuleSets :
         CallConfigure(force, parity, failAt, existing, generated, merged)
    \/ \E configNil \in WhenReturned(BOOLEAN), addresses \in Slices,
          vipSet \in SUBSET ParityValues, found \in BOOLEAN, rules \in Slices,
          generated \in Slices,
          failing \in {"none", "ipLoopback.Get", "iptables.Save",
                       "iptables.GenerateRules"} :
         \E vips \in Orderings(vipSet) :
            CallCheckConfigParity(configNil, addresses, vips, found, rules,
                                  generated, failing)
    \/ \E data \in WhenReturned(SaveOutputs) : CallGetSaveLines("nat", data)
    \/ \E configured \in WhenReturned(SUBSET FnAddrs), desired \in SUBSET FnAddrs :
         \E removals \in Orderings(Compare(configured, desired).removals),
            additions \in Orderings(Compare(configured, desired).additions),
            getOk \in BOOLEAN :
            \E failAt \in 0..(IF getOk THEN Len(removals) + Len(additions) ELSE 0) :
               CallSetAddresses(configured, desired, removals, additions,
                                getOk, failAt)
    \/ \E portMap \in WhenReturned(FnPortMaps), services \in FnServices :
         \E order \in Orderings({p \in FnListenPorts : portMap[p] # 0}) :
            CallConfigureHAProxy(portMap, order, services)
    \/ \E a \in WhenReturned(HAAddrs), d \in FnDestLists, p \in FnPortLists :
         CallRender(a, d, p)
    \/ \E sources \in WhenReturned([FnAddrs -> 0..1]),
          v6addrs \in SeqsUpTo(FnAddrs, MaxDesired) :
         \E order \in Orderings({a \in FnAddrs : sources[a] # 0}) :
            CallGetRemovals(sources, order, v6addrs)

(***************************************************************************)
(* CLAIMS: realserver                                                      *)
(***************************************************************************)
\* a caller is executing the body of Start or Stop: it is past the guard and
\* past setReconfiguring(true)
InBody(c) ==
    rsCall[c].pc \notin {"idle", "start_set", "stop_set", "stop_refused"}

\* C1: at most one Start or Stop call executes its body at any time; a call
\* made while another is in progress returns an error without side effects.
C1_StartStopExclusive == Cardinality({c \in Callers : InBody(c)}) <= 1

\* the calls setup makes when every step succeeds and ipPrimary.Get returned got
FullOrder(got) ==
    <<Call("ipLoopback.Teardown", 0, TRUE), Call("iptables.Flush", 0, TRUE),
      Call("ipLoopback.SetARP", 0, TRUE), Call("ipLoopback.SetRPFilter", 0, TRUE),
      Call("ipPrimary.SetARP", 0, TRUE), Call("ipvs.Teardown", 0, TRUE),
      Call("ipPrimary.Get", 0, TRUE)>>
    \o [i \in 1..Len(got) |-> Call("ipPrimary.Del", got[i], TRUE)]
    \o <<Call("watcher.ConfigMap", 0, TRUE), Call("watcher.Nodes", 0, TRUE)>>

\* the same calls in the same order, whatever their results
SameCalls(log, full) ==
    /\ Len(log) <= Len(full)
    /\ \A i \in 1..Len(log) :
         log[i].call = full[i].call /\ log[i].arg = full[i].arg

\* a failed call is the last one, but for Teardown inside cleanup, which is
\* followed by Flush and nothing else
StopsAtFirstFailure(log) ==
    \A i \in 1..Len(log) :
        \/ log[i].ok
        \/ i = Len(log)
        \/ i = 1 /\ Len(log) = 2

C2_SetupState ==
    \A c \in Callers :
        LET r == rsCall[c] IN
        /\ SameCalls(r.log, FullOrder(r.got))
        /\ StopsAtFirstFailure(r.log)
        /\ r.pc = "spawn" => r.log = FullOrder(r.got)
        /\ r.pc = "fail" =>
             /\ \E i \in 1..Len(r.log) : ~r.log[i].ok
             /\ \A i \in 1..Len(r.log) :
                  r.log[i].call \notin {"watcher.ConfigMap", "watcher.Nodes"}

C2_SetupSteps ==
    /\ \A c \in Callers :
         rsCall[c].pc = "fail" /\ rsCall'[c].pc = "idle" =>
           /\ rsPeriodic' = rsPeriodic
           /\ rsWatches' = rsWatches
           /\ rsCtxCount' = rsCtxCount
    /\ (rsPeriodic' # rsPeriodic /\ \E g \in Goroutines :
            rsPeriodic[g] = "none" /\ rsPeriodic'[g] # "none")
         => \E c \in Callers : rsCall[c].pc = "spawn" /\ rsCall'[c].pc = "idle"
    /\ rsWatches' # rsWatches
         => \E c \in Callers : rsCall[c].pc = "spawn" /\ rsCall'[c].pc = "idle"
    /\ rsCtxCount' # rsCtxCount
         => \E c \in Callers : rsCall[c].pc = "register"

\* C2: Start runs cleanup (Teardown, Flush), ipLoopback.SetARP,
\* ipLoopback.SetRPFilter, ipPrimary.SetARP, ipvs.Teardown, one ipPrimary.Del per
\* address ipPrimary.Get returned, then the two watch registrations, in this
\* order; a step runs only if every earlier one succeeded, and after a failure
\* no watch is registered and no goroutine is spawned.
C2_SetupOrder == [](C2_SetupState) /\ [][C2_SetupSteps]_vars

\* a Start that deleted two primary addresses and registered its watches
C2_Witness ==
    \E c \in Callers :
        /\ rsCall[c].pc = "spawn"
        /\ Len(rsCall[c].got) >= 2
        /\ rsCall[c].log = FullOrder(rsCall[c].got)

\* C3: at most one invocation of configure is in progress at any time, across
\* any sequence of Start and Stop calls.
C3_OneConfigure ==
    Cardinality({g \in Goroutines : rsPeriodic[g] = "configure"}) <= 1


\* the worker was started: Start has spawned watches and periodic
Started == rsWatches > 0

C16_Step ==
    \A c \in Callers :
        rsCall'[c].pc # rsCall[c].pc =>
            /\ rsCall'[c].pc = "stop_refused" =>
                 /\ rsCall[c].pc = "idle" /\ rsReconfiguring
                 /\ rsCancelled' = rsCancelled /\ rsReconfiguring' = rsReconfiguring
            /\ rsCall[c].pc = "stop_refused" =>
                 /\ rsCall'[c].pc = "idle"
                 /\ rsCancelled' = rsCancelled /\ rsReconfiguring' = rsReconfiguring
            /\ rsCall[c].pc = "stop_set" =>
                 /\ rsCall'[c].pc = "stop_wait"
                 /\ rsCtxWatch # 0 => rsCtxWatch \in rsCancelled'
            /\ rsCall[c].pc = "stop_wait" => rsCall'[c].pc = "stop_cleanup"
            /\ rsCall'[c].pc = "stop_cleanup" => rsCall[c].pc = "stop_wait"
            /\ rsCall[c].pc = "stop_cleanup" => rsCall'[c].pc = "idle"

C28_NoConfigureDuringCleanup ==
    (\E c \in Callers : rsCall[c].pc = "stop_cleanup")
        => \A g \in Goroutines : rsPeriodic[g] # "configure"

\* C30: after Stop has reached its cleanup, the goroutines Start spawned end:
\* in the end no watches goroutine is left consuming nodeChan and configChan
\* and no periodic goroutine is left waiting at its send to doneChan.
C30_GoroutinesTerminate ==
    (\E c \in Callers : rsCall[c].pc = "stop_cleanup")
        ~> (/\ rsWatches = 0
            /\ \A g \in Goroutines : rsPeriodic[g] # "send_done")

(***************************************************************************)
(* CLAIMS: director                                                        *)
(***************************************************************************)
\* every spawned goroutine of the director waits in its select
DirQuiescent ==
    /\ dStarts > 0
    /\ \A g \in DGoroutines :
         dWat[g].pc \in {"none", "select"} /\ dPer[g] \in {"none", "select"}

\* C4: every config consumed from configChan forces a configure attempt through
\* the parity-gated path: while the newConfig flag set by watches has not been
\* handed to CheckConfigParity and no configure has read the latched config,
\* the throttle does not close the parity-gated path.
C4_NewConfigForcesConfigure ==
    (DirQuiescent /\ dNewConfig /\ dUnread /\ ~dCrashed) => ~noUpdatesReady

\* C5: immediately after watches latched a config or a non-equal node list
\* (the store of lastInboundUpdate), lastReconfigure > lastInboundUpdate is false.
C5_NotThrottledAfterLatch ==
    [][\A g \in DGoroutines :
         (dWat[g].pc = "stamp" /\ dWat'[g].pc = "select")
            => ~(dLastReconf' > dLastInbound')]_vars

\* the calls configure makes, in order
ConfigureOrder == <<"setAddresses", "bgp.Set", "ipvs.SetIPVS">>

\* the steps of goroutine g's configure so far are the first n of the order
CompletedSteps(g, run, n) ==
    /\ Len(run[g]) = n
    /\ \A i \in 1..n : run[g][i].call = ConfigureOrder[i]

\* one step of configure
C18_Step ==
    /\ \A g \in DGoroutines :
         dPer'[g] # dPer[g] =>
            /\ dPer'[g] = "bgp" =>
                 dPer[g] = "configure" /\ CompletedSteps(g, dRun', 1)
            /\ dPer'[g] = "apply" =>
                 /\ dPer[g] = "bgp" /\ CompletedSteps(g, dRun', 2)
                 /\ dRun'[g][2].config = dConfig
            /\ dPer'[g] = "stamp" =>
                 dPer[g] = "apply" /\ CompletedSteps(g, dRun', 3)
            /\ (dPer[g] \in {"configure", "bgp", "apply"} /\ dPer'[g] = "select") =>
                 /\ dRun'[g] = <<>>
                 /\ dLastReconf' = dLastReconf
                 /\ ~noUpdatesReady => ~noUpdatesReady'
    /\ dLastReconf' # dLastReconf =>
         \E g \in DGoroutines :
            /\ dPer[g] = "stamp" /\ dPer'[g] = "select"
            /\ CompletedSteps(g, dRun, 3)

C19_Step ==
    /\ \A g \in DGoroutines :
         (dPer[g] = "check" /\ dPer'[g] # "check") =>
            IF dLastReconf > dLastInbound
            THEN /\ dPer'[g] = "select"
                 /\ dNewConfig' = dNewConfig
                 /\ dRun' = dRun
                 /\ dLastReconf' = dLastReconf
            ELSE dPer'[g] = "get"
    /\ (dLastReconf > dLastInbound /\ dLastInbound' = dLastInbound) =>
         dLastReconf' > dLastInbound'

\* C19: performReconfigure returns at once when lastReconfigure is strictly
\* later than lastInboundUpdate: it goes back to the select without
\* ipLoopback.Get, CheckConfigParity or configure and leaves newConfig alone;
\* the throttle stays closed until watches store a new lastInboundUpdate, so
\* every later tick skips too; with equal times it goes on to ipLoopback.Get.
C19_SkipWhenThrottled == [][C19_Step]_vars

\* a tick is being checked with newConfig set and the throttle closed, and
\* both times are set
C19_Witness ==
    \E g \in DGoroutines :
        /\ dPer[g] = "check"
        /\ dNewConfig
        /\ dLastInbound > 0 /\ dLastReconf > dLastInbound

\* C20: the steps of one configure invocation all read the same b.config,
\* also when watches replace b.config while configure runs.
C20_ConsistentSnapshot ==
    \A g \in DGoroutines :
        \A i, j \in 1..Len(dRun[g]) : dRun[g][i].config = dRun[g][j].config

\* C22: the director's periodic loop leaves its select for the send on
\* doneChan when the parent context is cancelled, and returns without that
\* send only when the watch context alone is cancelled.
C22_PeriodicDoneSignal ==
    [][\A g \in DGoroutines :
         /\ (dPer[g] = "select" /\ dPer'[g] = "exited") => ~dCtxDone
         /\ (dPer[g] = "select" /\ dPer'[g] = "send_done") => dCtxDone]_vars

\* C25: no tick lets configure run while the worker's config is nil: whenever
\* the periodic goroutine is about to call setAddresses, a first config has
\* been consumed from configChan.
C25_ConfigureNeedsConfig ==
    \A g \in DGoroutines : dPer[g] = "configure" => dConfig # 0

\* C27: an update latched while a configure is in progress is not masked by
\* the throttle: when a configure ends and watches has, since that configure
\* read the config, stored a new config and its lastInboundUpdate, the
\* skip-condition lastReconfigure > lastInboundUpdate is false afterwards.
C27_LatchDuringConfigureNotMasked ==
    [][\A g \in DGoroutines :
         (/\ dPer[g] = "stamp" /\ dPer'[g] = "select"
          /\ dUnread
          /\ \A w \in DGoroutines : dWat[w].pc \in {"none", "select"})
            => ~(dLastReconf' > dLastInbound')]_vars

(***************************************************************************)
(* CLAIMS: HAProxy set                                                     *)
(***************************************************************************)
\* the two port lists hold the same elements in the same order
ElementsEqual(p, q) == p.elems = q.elems

\* C6: a Reload with different ports whose SIGHUP fails leaves on disk exactly
\* the bytes the file held before the call (the write in unroll succeeding)
\* and leaves the instance's ports and rendered bytes alone; ports and
\* rendered change only when render, write and SIGHUP all succeed. This holds
\* for every Reload of a registered instance, the first one included.
C6_UnrollRestores ==
    [][(haLast'.op = "Configure" /\ haSources[haLast'.addr] # 0) =>
         LET a == haLast'.addr
             h == haInst[haSources[a]]
             h2 == haInst'[haSources[a]]
         IN  /\ (haLast'.sighup = "failed" /\ haLast'.unroll = "ok") =>
                   /\ haFiles'[a] = haFiles[a]
                   /\ h2.ports = h.ports
                   /\ h2.rendered = h.rendered
             /\ (h2.ports # h.ports \/ h2.rendered # h.rendered) =>
                   (haLast'.sighup = "ok" /\ ~haLast'.err)]_vars

\* C7: a Configure for an address whose instance is registered, with
\* ListenPorts equal element for element to the instance's ports, calls write
\* zero times, sends no SIGHUP and leaves ports, rendered and the file alone;
\* with different ports a call that returns nil wrote the file once, with
\* the rendering of the new ports, and sent SIGHUP once.
C7_ReloadNoOp ==
    [][(haLast'.op = "Configure" /\ haSources[haLast'.addr] # 0) =>
         LET a == haLast'.addr
             h == haInst[haSources[a]]
             h2 == haInst'[haSources[a]]
         IN  /\ ElementsEqual(haLast'.ports, h.ports) =>
                   /\ haLast'.writes = 0
                   /\ haLast'.sighups = 0
                   /\ h2 = h
                   /\ haFiles' = haFiles
             /\ (~ElementsEqual(haLast'.ports, h.ports)
                   /\ ~haLast'.err /\ ~haLast'.panic) =>
                   /\ haLast'.writes = 1
                   /\ haLast'.sighups = 1
                   /\ haFiles'[a] =
                        render(a, h.serviceAddrs, haLast'.ports)]_vars

\* C8: Configure for an address with no registered instance creates exactly
\* one instance (file rendered and written, goroutine spawned under a child
\* of the set's current context) and registers it in both maps, unless the
\* creation fails: then the child context is cancelled, the error returned
\* and both maps and the instances are as before. For a registered address
\* no instance is created, both maps stay as they are and Reload is called.
C8_Step ==
    haLast'.op = "Configure" =>
        LET a == haLast'.addr
            id == Len(haInst) + 1
        IN  IF haSources[a] # 0
            THEN /\ haLast'.found
                 /\ Len(haInst') = Len(haInst)
                 /\ haSources' = haSources
                 /\ haCancelFuncs' = haCancelFuncs
            ELSE IF haLast'.err
            THEN /\ haLast'.cancelled
                 /\ haInst' = haInst
                 /\ haSources' = haSources
                 /\ haCancelFuncs' = haCancelFuncs
            ELSE ~haLast'.panic =>
                 /\ Len(haInst') = id
                 /\ SubSeq(haInst', 1, Len(haInst)) = haInst
                 /\ haInst'[id].listenAddr = a
                 /\ haInst'[id].ports = haLast'.ports
                 /\ haInst'[id].gen = haCtx
                 /\ ~haInst'[id].cxl
                 /\ haInst'[id].proc = "unstarted"
                 /\ haFiles'[a] = render(a, haInst'[id].serviceAddrs,
                                         haLast'.ports)
                 /\ haSources' = [haSources EXCEPT ![a] = id]
                 /\ haCancelFuncs' = [haCancelFuncs EXCEPT ![a] = id]

C9_Step ==
    LET ev == Head(haErrChan)
        id == Len(haInst) + 1
    IN  /\ (haSup.pc = "select" /\ haSup'.pc = "sleep") =>
              /\ Len(haInst') = id
              /\ HAProxyError(haInst'[id]) = ev
              /\ haInst'[id].gen = haCtx
              /\ ~haInst'[id].cxl
              /\ haSources'[ev.Source] = id
              /\ haCancelFuncs'[ev.Source] = id
        /\ (haSup.pc = "select" /\ haSup'.pc = "requeue") =>
              /\ haInst' = haInst
              /\ haSources'[ev.Source] = 0
              /\ haCancelFuncs'[ev.Source] = 0
              /\ haSup'.ev = ev
        /\ (haSup.pc = "requeue" /\ haSup'.pc = "sleep") =>
              /\ haErrChan' = Append(haErrChan, haSup.ev)
              /\ haSources'[haSup.ev.Source] = 0
              /\ haCancelFuncs'[haSup.ev.Source] = 0

C9_RespawnRetried ==
    /\ [][C9_Step]_vars
    /\ (haSup.pc = "requeue" /\ ~haCrashed)
          ~> (haSup.pc # "requeue" \/ haCrashed)

\* C10: no goroutine waits on a send to errChan: a sender that finds errChan
\* at its capacity panics
C10_SendNeverBlocks ==
    (haSup.pc = "requeue" /\ Len(haErrChan) >= ErrChanCap) => haCrashed

\* C11: when StopAll returns, every instance created under the context the
\* set held before the call has a cancelled context, the instance map and
\* the cancel-func map are both empty, and the set's context is a fresh one
\* that is not cancelled.
C11_StopAllResets ==
    [][(haStop = "ctx" /\ haStop' = "idle") =>
         /\ \A i \in 1..Len(haInst') :
               haInst'[i].gen = haCtx => haInst'[i].gen \in haDone'
         /\ \A a \in HAAddrs : haSources'[a] = 0 /\ haCancelFuncs'[a] = 0
         /\ haCtx' \notin haDone']_vars

\* StopAll assigns h.sources or h.cancelFuncs in this step
StopAllWritesMap ==
    \/ haStop = "sources" /\ haStop' = "cancelFuncs"
    \/ haStop = "cancelFuncs" /\ haStop' = "ctx"

\* C21: the instance map and the cancel-func map are read and written only by
\* the holder of the set mutex (so no other goroutine assigns them while the
\* supervisor holds it), and a call that holds the mutex for its whole body,
\* as Configure does, writes no config file and signals no child.
C21_MapsUnderMutexIOOutside ==
    [][/\ haLock => (/\ haSources' = haSources
                     /\ haCancelFuncs' = haCancelFuncs
                     /\ ~StopAllWritesMap)
       /\ haLast'.op = "Configure" =>
            (haLast'.writes = 0 /\ haLast'.sighups = 0)]_vars

\* the instances created for address a, oldest first
InstancesOf(a) == {i \in 1..Len(haInst) : haInst[i].listenAddr = a}
\* the last instance created for address a was stopped on purpose
StoppedOnPurpose(a) ==
    /\ InstancesOf(a) # {}
    /\ LET last == CHOOSE i \in InstancesOf(a) : \A k \in InstancesOf(a) : k <= i
       IN  ~Live(haInst[last])

\* C26: an instance stopped on purpose stays stopped: when the process of an
\* instance whose context was cancelled by StopOne or StopAll ends, nothing is
\* put on errChan, and only Configure creates an instance for an address
\* whose last instance was stopped on purpose.
C26_StoppedStaysStopped ==
    [][/\ \A i \in 1..Len(haInst) :
            (/\ ~Live(haInst[i])
             /\ haInst[i].proc \in {"unstarted", "running"}
             /\ haInst'[i].proc \in {"failed", "exited"})
                => haErrChan' = haErrChan
       /\ (Len(haInst') > Len(haInst) /\ haLast'.op # "Configure")
            => ~StoppedOnPurpose(haInst'[Len(haInst')].listenAddr)]_vars

\* C29: the supervisor never blocks while it holds the set mutex: whenever the
\* mutex is held it is released again (or the process has panicked), so that
\* Configure, StopOne and GetRemovals get it in the end.
C29_MutexReleased ==
    haLock ~> (~haLock \/ haCrashed)

\* C31: after Configure(v) returned nil, the instance registered for v.Addr6
\* forwards to v.ServiceAddrs: its serviceAddrs are v.ServiceAddrs and its
\* config file is the rendering of v.ServiceAddrs and v.ListenPorts, also when
\* the instance existed before the call.
C31_ConfigureForwards ==
    [][\A a \in HAAddrs, d \in DestLists, p \in PortLists,
          w \in ConfigureWrites :
         (/\ Configure(a, d, p, w[1], w[2])
          /\ ~haLast'.err
          /\ ~haLast'.panic)
            => /\ haSources'[a] # 0
               /\ haInst'[haSources'[a]].serviceAddrs = d
               /\ haFiles'[a] = render(a, d, p)]_vars

\* C33: whenever no StopAll call is in progress, the instance map and the
\* cancel-func map have the same key set: an address has a registered
\* instance if and only if it has a registered cancel func.
C33_SameKeys ==
    haStop = "idle"
        => \A a \in HAAddrs : (haSources[a] # 0) <=> (haCancelFuncs[a] # 0)

(***************************************************************************)
(* CLAIMS: functions                                                       *)
(***************************************************************************)
\* the elements of a sequence
Range(q) == {q[i] : i \in 1..Len(q)}

\* C12: GetRemovals(desired) returns each registered address that does not
\* occur in desired exactly once and no other address.
C12_GetRemovalsExact ==
    fn.op = "GetRemovals" =>
        /\ Range(fn.out) =
              {a \in FnAddrs : fn.in.sources[a] # 0} \ Range(fn.in.v6addrs)
        /\ \A i, j \in 1..Len(fn.out) : fn.out[i] = fn.out[j] => i = j

\* two of three registered addresses are removals
C12_Witness ==
    /\ fn.op = "GetRemovals"
    /\ \A a \in 1..3 : fn.in.sources[a] # 0
    /\ Len(fn.in.v6addrs) = 2
    /\ Len(fn.out) = 2

Min(a, b) == IF a < b THEN a ELSE b

\* C13: render(ports) never fails and produces min(len(ports),
\* len(serviceAddrs)) entries, entry i being {ports[i], listenAddr,
\* serviceAddrs[i]}: ports beyond the service addresses produce no entry.
C13_RenderEntries ==
    fn.op = "render" =>
        LET ports == fn.in.ports.elems
            dests == fn.in.serviceAddrs
            n == Min(Len(ports), Len(dests))
        IN  /\ ~fn.out.panic
            /\ Len(fn.out.b.entries) = n
            /\ \A i \in 1..n :
                  fn.out.b.entries[i] =
                     [Port |-> ports[i], Source |-> fn.in.listenAddr,
                      Dest |-> dests[i]]

\* C14: every VIPConfig built by configureHAProxy has co-indexed slices of
\* equal length, entry i pairing a listen port of the PortMap with the
\* address its service identity resolved to; each resolved port appears
\* exactly once, a port whose identity is not in the service index appears
\* in neither slice, and the lookup failure does not fail the call
C14_VIPConfigAligned ==
    fn.op = "configureHAProxy" =>
        LET cfg      == fn.out.cfg
            portMap  == fn.in.portMap
            services == fn.in.services
            resolved == {p \in FnListenPorts :
                           portMap[p] # 0 /\ services[portMap[p]] # 0}
        IN  /\ ~fn.out.failed
            /\ Len(cfg.ServiceAddrs) = Len(cfg.ListenPorts)
            /\ \A i \in 1..Len(cfg.ListenPorts) :
                 /\ cfg.ListenPorts[i] \in resolved
                 /\ cfg.ServiceAddrs[i] = services[portMap[cfg.ListenPorts[i]]]
            /\ Range(cfg.ListenPorts) = resolved
            /\ Len(cfg.ListenPorts) = Cardinality(resolved)

\* a PortMap with a resolved and an unresolved identity was converted
C14_Witness ==
    /\ fn.op = "configureHAProxy"
    /\ \E p, q \in FnListenPorts :
         /\ fn.in.portMap[p] # 0 /\ fn.in.services[fn.in.portMap[p]] # 0
         /\ fn.in.portMap[q] # 0 /\ fn.in.services[fn.in.portMap[q]] = 0
    /\ Len(fn.out.cfg.ServiceAddrs) >= 1

\* C15: after setAddresses succeeds the device holds exactly the VIP keys
\* of config.Config: each configured address that is not desired was deleted,
\* each desired address that was not configured was added, no Del follows an
\* Add, and nothing is called when configured equals desired
C15_SetAddressesConverges ==
    (fn.op = "setAddresses" /\ ~fn.out.err) =>
        LET calls == fn.out.calls
            dels  == {calls[i].addr : i \in {j \in 1..Len(calls) : calls[j].op = "Del"}}
            adds  == {calls[i].addr : i \in {j \in 1..Len(calls) : calls[j].op = "Add"}}
        IN  /\ fn.out.lo = fn.in.desired
            /\ dels = fn.in.configured \ fn.in.desired
            /\ adds = fn.in.desired \ fn.in.configured
            /\ Len(calls) = Cardinality(dels) + Cardinality(adds)
            /\ \A i, j \in 1..Len(calls) :
                 (calls[i].op = "Add" /\ calls[j].op = "Del") => j < i
            /\ (fn.in.configured = fn.in.desired) => calls = <<>>

\* a successful call that both deleted and added addresses
C15_Witness ==
    /\ fn.op = "setAddresses" /\ ~fn.out.err
    /\ \E i, j \in 1..Len(fn.out.calls) :
         fn.out.calls[i].op = "Del" /\ fn.out.calls[j].op = "Add"
    /\ fn.out.lo = fn.in.desired

\* line i of data lies in the section of the table
InSection(table, data, i) ==
    \E j \in 1..(i - 1) :
        /\ data[j].lead = "*" /\ data[j].name = table
        /\ \A k \in (j + 1)..i : data[k].lead \notin {"*", "COMMIT"}

\* the number of rules of the chains in S
RECURSIVE RuleCount(_, _)
RuleCount(chains, S) ==
    IF S = {} THEN 0
    ELSE LET ch == CHOOSE x \in S : TRUE
         IN  Len(chains[ch]) + RuleCount(chains, S \ {ch})

Multiset(q) == [x \in Range(q) |-> Cardinality({i \in 1..Len(q) : q[i] = x})]

\* C23: checkConfigParity returns true when r.config is nil; otherwise, when
\* no call fails, it returns true exactly when the loopback addresses and the
\* desired VIPs are the same set and the existing and the generated rules of
\* the base chain are the same multiset, in whatever order Get, Save and the
\* generator return them.
C23_ParityOrderIndependent ==
    (fn.op = "checkConfigParity" /\ ~fn.out.err) =>
        IF fn.in.configNil THEN fn.out.same
        ELSE fn.out.same <=>
               /\ Range(fn.in.addresses.elems) = Range(fn.in.vips)
               /\ Multiset(IF fn.in.found THEN fn.in.rules.elems ELSE <<>>)
                    = Multiset(fn.in.generated.elems)

\* the calls of a configure, by name, in the order it made them
CallNames(calls) == [i \in 1..Len(calls) |-> calls[i].call]
\* the full order of a configure that runs to the end
RealserverOrder ==
    <<"setAddresses", "Save", "GenerateRulesForNodes", "Merge", "Restore">>
\* q is the beginning of r
IsPrefix(q, r) == Len(q) <= Len(r) /\ q = SubSeq(r, 1, Len(q))

\* C24: a configure(false) whose parity check reports equal returns nil having
\* called nothing else; configure(true) never calls the parity check; every
\* other configure calls setAddresses, Save, GenerateRulesForNodes, Merge and
\* Restore in that order, stops at the first failing call, returns an error
\* exactly when a call failed, Merge receives what the generator and Save
\* returned, and Restore receives what Merge returned.
C24_ConfigureOrder ==
    fn.op = "configure" =>
        LET names   == CallNames(fn.out.calls)
            checks  == IF fn.in.force THEN 0 ELSE 1
            body    == SubSeq(names, checks + 1, Len(names))
            calls   == fn.out.calls
        IN  /\ fn.in.force => \A i \in 1..Len(names) : names[i] # "checkConfigParity"
            /\ ~fn.in.force => Len(names) >= 1 /\ names[1] = "checkConfigParity"
            /\ (~fn.in.force /\ fn.in.parity = "same") =>
                   (Len(names) = 1 /\ ~fn.out.err)
            /\ (~fn.in.force /\ fn.in.parity = "err") =>
                   (Len(names) = 1 /\ fn.out.err)
            /\ IsPrefix(body, RealserverOrder)
            /\ (fn.in.force \/ fn.in.parity = "differ") =>
                   /\ Len(body) = (IF fn.in.failAt = 0 THEN 5 ELSE fn.in.failAt)
                   /\ fn.out.err <=> fn.in.failAt # 0
            /\ \A i \in 1..Len(calls) :
                  /\ calls[i].call = "Merge" =>
                        calls[i].args = <<calls[i-1].ret, calls[i-2].ret>>
                  /\ calls[i].call = "Restore" =>
                        calls[i].args = <<calls[i-1].ret>>

\* a forced configure ran to the end and restored a merged rule set that is
\* neither the generated nor the existing one
C24_Witness ==
    /\ fn.op = "configure"
    /\ fn.in.force
    /\ fn.in.parity = "same"
    /\ ~fn.out.err
    /\ Len(fn.out.calls) = 5
    /\ fn.out.calls[5].args[1] \notin {fn.in.generated, fn.in.existing}

\* C32: reconciliation converges: the parity check of the tick that follows a
\* successful configure, with config, node and kernel state unchanged,
\* returns true without an error.
C32_ParityAfterConfigure ==
    fn.op = "tickAfterConfigure" => (fn.out.same /\ ~fn.out.err)

(***************************************************************************)
(* SPECIFICATIONS                                                          *)
(***************************************************************************)
Init == RSInit /\ DirInit /\ HAInit /\ FnInit

Next == RSNext \/ DirNext \/ HANext \/ FnNext

Spec == Init /\ [][Next]_vars

\* one component at a time, the others left as constructed
SpecRealserver == Init /\ [][RSNext]_vars
\* a Stop call past the guard is a running goroutine, and the runtime fires
\* its 5 s timer
SpecRealserverFair ==
    /\ SpecRealserver
    /\ \A c \in Callers :
         /\ WF_vars(StopCancel(c))
         /\ WF_vars(StopWaitTimeout(c))
         /\ WF_vars(StopCleanup(c))

InitDirector == Init /\ rsPrimary = {}

SpecDirector == InitDirector /\ [][DirNext]_vars

InitHAProxy == Init /\ rsPrimary = {}

InitFunctions == Init /\ rsPrimary = {}

SpecFunctions == InitFunctions /\ [][FnNext]_vars

SpecHAProxy == InitHAProxy /\ [][HANext]_vars

\* a send that can proceed does proceed
SpecHAProxyFair == SpecHAProxy /\ WF_vars(RunRequeue)

====
